---- MODULE Spec2Model ----
(***************************************************************************)
(* Channel<T> of basic/Coroutine/include/coroutine/channels.h, driven by   *)
(* the producer / consumer Task coroutines of examples/05_channels.cpp.    *)
(*                                                                         *)
(* Every coroutine is first resumed by a thread of its own.  A coroutine   *)
(* that is resumed from inside a channel operation (handle.resume() in     *)
(* await_suspend or close) runs inline on the resuming thread, on top of   *)
(* that thread's call stack and with the channel mutex still held.         *)
(* await_suspend returns void, so a coroutine whose await_suspend returns  *)
(* is suspended whatever path it took.                                     *)
(*                                                                         *)
(* Scheduler of include/coroutine/scheduler.h (worker threads, priority    *)
(* queue, condition variable) and Task<T> of include/coroutine/task.h are  *)
(* modelled next to it, each with variables and a specification of its     *)
(* own: Spec is the channel, SchedSpec the scheduler, TaskSpec the task.   *)
(* A specification leaves the variables of the other two at their initial  *)
(* values.                                                                 *)
(***************************************************************************)
EXTENDS Integers, Sequences, FiniteSets

VARIABLES
    capacity_,          \* Channel::capacity_
    closed_,            \* Channel::closed_
    buffer_,            \* Channel::buffer_
    send_waiters_,      \* Channel::send_waiters_ : queue of SendWaiter{handle, value}
    receive_waiters_,   \* Channel::receive_waiters_ : queue of handles
    mutex_,             \* Channel::mutex_ : the thread that holds it, or Free
    pc,                 \* position of every coroutine / thread
    stack,              \* per thread: the coroutines it is running, innermost last
    cfg,                \* per agent: role and arguments (start, count, close)
    idx,                \* producer loop counter i
    value_,             \* SendAwaiter::value_
    receiver_result_,   \* SendAwaiter::receiver_result_
    result_,            \* ReceiveAwaiter::result_
    outcome,            \* how the agent's last co_await ended
    sentOK,             \* values whose send returned without error, per producer
    received,           \* values returned by receive, per consumer
    call,               \* channel state seen by await_ready of the current operation
    wokenBy,            \* which operation resumed the agent from its waiter queue
    firstCloser,        \* the agent whose close() set closed_
    queuedAtClose       \* the waiters queued when closed_ was set

\* Scheduler
VARIABLES
    thread_count_,      \* Scheduler::thread_count_
    running_,           \* Scheduler::running_
    stop_requested_,    \* Scheduler::stop_requested_
    task_queue_,        \* Scheduler::task_queue_ : the entries Task{handle, priority}
    threads_,           \* Scheduler::threads_ : the workers whose std::thread it holds
    sched_mutex_,       \* Scheduler::mutex_ : the thread that holds it, or Free
    condition_,         \* Scheduler::condition_ : the threads blocked in wait()
    tpc,                \* position of every client and worker thread
    task,               \* worker_thread: the local Task task
    arg,                \* schedule(handle): the handle argument of the call in progress
    prog,               \* the handles that main passes to schedule(), call by call
    hkind,              \* per coroutine handle: what its body does when resumed
    hdone,              \* per coroutine handle: handle.done()
    resuming,           \* per coroutine handle: the threads inside handle.resume()
    enq,                \* the entries placed in task_queue_, in order
    res,                \* the resumptions begun, in order: entry (0: inline), handle, thread
    deqCount,           \* per entry: how many times it was taken from the queue
    firstSeen,          \* how many entries had been placed when the first one was taken
    nSched,             \* number of schedule() calls made
    nStart,             \* number of start() calls that spawned workers
    stopSeen,           \* per thread: how its latest stop() call ended
    abandoned           \* the entries that were in task_queue_ when a stop() took effect

\* Task
VARIABLES
    tstate,             \* per task: where its coroutine stands
    active,             \* the coroutine that executes ("none": the owner's code)
    tsteps,             \* per task: how many parts of its body have run
    task_result_,       \* Task::promise_type::result_
    continuation_,      \* Task::promise_type::continuation_
    tbody,              \* per task: its body (parts, how it ends)
    escaped,            \* per task: an exception left the body towards whoever resumed it
    got,                \* what the awaiting coroutine got at its await point
    said                \* the owner's latest done() or resume() call and what it found

\* ScheduledTask
VARIABLES
    scheduler_,         \* per task: ScheduledTask::promise_type::scheduler_ is set
    priority_,          \* ScheduledTask::promise_type::priority_
    working,            \* the coroutine that the worker thread executes ("none": idle)
    stale               \* destroyed coroutines that a thread resumed or was executing

\* math_utils
VARIABLES
    div_a,              \* divide(): the argument a
    div_b,              \* divide(): the argument b
    div_result          \* what the call of divide(a, b) came to (NotCalled before it)

chan == <<capacity_, closed_, buffer_, send_waiters_, receive_waiters_>>
ctl  == <<pc, stack, cfg, idx>>
awt  == <<value_, receiver_result_, result_>>
obs  == <<outcome, sentOK, received, call, wokenBy, firstCloser, queuedAtClose>>
cvars == <<chan, mutex_, ctl, awt, obs>>
svars == <<thread_count_, running_, stop_requested_, task_queue_, threads_, sched_mutex_,
           condition_, tpc, task, arg, prog, hkind, hdone, resuming,
           enq, res, deqCount, firstSeen, nSched, nStart, stopSeen, abandoned>>
stask == <<scheduler_, priority_, working, stale>>
tvars == <<tstate, active, tsteps, task_result_, continuation_, tbody, escaped, got, said, stask>>
mvars == <<div_a, div_b, div_result>>
vars == <<cvars, svars, tvars, mvars>>

\* ---- bounds ----
MaxCap   == 2      \* capacities 0..MaxCap
MaxSend  == 5      \* the first producer sends 1..MaxSend values
MaxStart == 1      \* its first value is 0..MaxStart

\* ---- agents ----
Producers == {"p1", "p2"}
Consumers == {"c1", "c2"}
Agents    == Producers \cup Consumers \cup {"main"}
Free      == "free"
None      == -1          \* empty std::optional
NoCall    == [ready |-> FALSE, closed |-> FALSE, buffered |-> 0, senders |-> 0,
              receivers |-> 0, front |-> None, first |-> "none"]

Top(t)     == stack[t][Len(stack[t])]
Running(a) == \E t \in Agents : Len(stack[t]) > 0 /\ Top(t) = a
Thr(a)     == CHOOSE t \in Agents : Len(stack[t]) > 0 /\ Top(t) = a
Pop(t)     == [stack EXCEPT ![t] = SubSeq(stack[t], 1, Len(stack[t]) - 1)]
Push(t, h) == [stack EXCEPT ![t] = Append(stack[t], h)]
\* What await_ready saw: its answer, the closed flag, the sizes of the three
\* queues, the value at the front (of the buffer, else of the first waiting
\* sender) and the first waiting receiver.
Snapshot(rdy) ==
    [ready |-> rdy, closed |-> closed_, buffered |-> Len(buffer_),
     senders |-> Len(send_waiters_), receivers |-> Len(receive_waiters_),
     front |-> IF buffer_ # <<>> THEN Head(buffer_)
               ELSE IF send_waiters_ # <<>> THEN Head(send_waiters_).value ELSE None,
     first |-> IF receive_waiters_ # <<>> THEN Head(receive_waiters_) ELSE "none"]

\* ---- configurations ----
Idle == [role |-> "none", start |-> 0, count |-> 0, close |-> FALSE]
ProducerCfg(s, n, c) == [role |-> "producer", start |-> s, count |-> n, close |-> c]
ConsumerCfg == [role |-> "consumer", start |-> 0, count |-> 0, close |-> FALSE]
CloserCfg   == [role |-> "closer", start |-> 0, count |-> 0, close |-> TRUE]

\* ---- the scheduler's threads and coroutine handles ----
MaxWorkers == 2    \* thread_count given to the constructor is 1..MaxWorkers
MaxEntries == 3    \* number of schedule() calls made
MaxStarts  == 1    \* number of start() calls that spawn workers
MaxRestarts == 1   \* further start() calls, after a stop(), of a one-worker scheduler

WorkerNames == <<"w1", "w2", "w3", "w4">>
Workers == {WorkerNames[i] : i \in 1..MaxWorkers}
WorkerIndex(w) == CHOOSE i \in 1..Len(WorkerNames) : WorkerNames[i] = w
Clients == {"main", "aux"}
Threads == Clients \cup Workers
CoroNames == <<"h1", "h2", "h3">>
Coros   == {CoroNames[i] : i \in 1..Len(CoroNames)}
\* what main schedules: h1, h2, h3, h1, ... in turn, or h1 every time
Distinct == [i \in 1..MaxEntries |-> CoroNames[((i - 1) % Len(CoroNames)) + 1]]
Same     == [i \in 1..MaxEntries |-> CoroNames[1]]
\* what the body of a continuation does when it is resumed: it returns,
\* suspends again, throws, calls stop(), or ("query") calls is_running() of
\* the scheduler and returns
Kinds   == {"return", "suspend", "throw", "stop", "query"}
NoTask  == [id |-> 0, handle |-> "none", priority |-> 0]

\* The scheduler as constructed (running_(false), stop_requested_(false), no
\* thread, empty queue) for handles of the given kinds.
Constructed(n, kinds, handles) ==
    /\ thread_count_ = n
    /\ prog = handles
    /\ running_ = FALSE
    /\ stop_requested_ = FALSE
    /\ task_queue_ = {}
    /\ threads_ = {}
    /\ sched_mutex_ = Free
    /\ condition_ = {}
    /\ tpc = [t \in Threads |-> IF t \in Clients THEN "idle" ELSE "none"]
    /\ task = [w \in Workers |-> NoTask]
    /\ arg = [c \in Clients |-> "none"]
    /\ hkind = kinds
    /\ hdone = [h \in Coros |-> FALSE]
    /\ resuming = [h \in Coros |-> {}]
    /\ enq = <<>>
    /\ res = <<>>
    /\ deqCount = <<>>
    /\ firstSeen = 0
    /\ nSched = 0
    /\ nStart = 0
    /\ stopSeen = [t \in Threads |-> "none"]
    /\ abandoned = {}

SchedIdle == Constructed(1, [h \in Coros |-> "return"], Distinct)

\* ---- the tasks ----
MaxParts == 2      \* a task body has 1..MaxParts parts, with a suspension between two
MaxVal   == 2      \* the value a body returns, or the exception it throws, is 1..MaxVal

\* "inner" is a Task<int> whose body suspends between its parts and ends by
\* co_return val or by throwing val; "outer" and "late" are coroutines whose
\* body is co_await inner.
Awaiters == {"outer", "late"}
Tasks  == {"inner"} \cup Awaiters
NoCallYet == [op |-> "none", task |-> "none", ans |-> FALSE]
NoBody == [parts |-> 0, ends |-> "none", val |-> 0]
Empty  == [kind |-> "monostate", val |-> 0]

NoTasks(bodies) ==
    /\ tstate = [t \in Tasks |-> "none"]
    /\ active = "none"
    /\ tsteps = [t \in Tasks |-> 0]
    /\ task_result_ = [t \in Tasks |-> Empty]
    /\ continuation_ = [t \in Tasks |-> "none"]
    /\ tbody = bodies
    /\ escaped = [t \in Tasks |-> FALSE]
    /\ got = Empty
    /\ said = NoCallYet
    /\ scheduler_ = [t \in Tasks |-> FALSE]
    /\ priority_ = [t \in Tasks |-> 0]
    /\ working = "none"
    /\ stale = {}

TaskIdle == NoTasks([t \in Tasks |-> NoBody])

\* ---- math_utils: divide() has not been called ----
NotCalled == [kind |-> "none", num |-> 0, den |-> 0]
MathIdle ==
    /\ div_a = 0 /\ div_b = 1
    /\ div_result = NotCalled

\* ---- the channel's initial states ----
Init ==
    /\ SchedIdle /\ TaskIdle /\ MathIdle
    /\ capacity_ \in 0..MaxCap
    /\ closed_ = FALSE
    /\ buffer_ = <<>>
    /\ send_waiters_ = <<>>
    /\ receive_waiters_ = <<>>
    /\ mutex_ = Free
    /\ \E s \in 0..MaxStart, n \in 1..MaxSend, c \in BOOLEAN, second \in BOOLEAN,
          two \in BOOLEAN, m \in BOOLEAN :
          /\ ~(second /\ two)      \* at most four parties at a time
          /\ cfg = [a \in Agents |->
                   CASE a = "p1"   -> ProducerCfg(s, n, c)
                     [] a = "p2"   -> IF second THEN ProducerCfg(MaxStart + MaxSend, 1, FALSE)
                                                ELSE Idle
                     [] a = "c1"   -> ConsumerCfg
                     [] a = "c2"   -> IF two THEN ConsumerCfg ELSE Idle
                     [] a = "main" -> IF m THEN CloserCfg ELSE Idle]
    /\ pc = [a \in Agents |-> IF cfg[a].role = "none" THEN "done" ELSE "created"]
    /\ stack = [a \in Agents |-> <<>>]
    /\ idx = [a \in Agents |-> 0]
    /\ value_ = [a \in Agents |-> None]
    /\ receiver_result_ = [a \in Agents |-> None]
    /\ result_ = [a \in Agents |-> None]
    /\ outcome = [a \in Agents |-> "none"]
    /\ sentOK = [a \in Agents |-> <<>>]
    /\ received = [a \in Agents |-> <<>>]
    /\ call = [a \in Agents |-> NoCall]
    /\ wokenBy = [a \in Agents |-> "none"]
    /\ firstCloser = "none"
    /\ queuedAtClose = {}

\* ---- the coroutine bodies ----
\* The code of a coroutine between two channel operations touches no shared
\* state, so it is run together with the step that precedes it.

Failed(out) == out \in {"closed", "abnormal"}

\* Where the body goes after a co_await that ended with out.
\* producer: for (i = 0; i < count; ++i) co_await channel->send(start + i);
\*   a failed send leaves the loop (break, or the exception ends the task);
\*   a producer that closes does so after its last successful send.
\* consumer: while (true) { try { co_await channel->receive(); } catch (...) { break; } }
NextOp(a, out) ==
    IF Failed(out) THEN "done"
    ELSE IF cfg[a].role = "consumer" THEN "r_ready"
    ELSE IF idx[a] < cfg[a].count THEN "s_ready"
    ELSE IF cfg[a].close THEN "close"
    ELSE "done"

\* The awaiter of the next operation is constructed: send(start + i) moves the
\* value into value_, receive() starts with an empty result_.
NewAwaiter(a, nxt) ==
    /\ idx' = IF nxt = "s_ready" THEN [idx EXCEPT ![a] = idx[a] + 1] ELSE idx
    /\ value_' = IF nxt = "s_ready"
                 THEN [value_ EXCEPT ![a] = cfg[a].start + idx[a]] ELSE value_
    /\ receiver_result_' = IF nxt = "s_ready"
                           THEN [receiver_result_ EXCEPT ![a] = None] ELSE receiver_result_
    /\ result_' = IF nxt = "r_ready" THEN [result_ EXCEPT ![a] = None] ELSE result_
    /\ wokenBy' = IF nxt \in {"s_ready", "r_ready"}
                  THEN [wokenBy EXCEPT ![a] = "none"] ELSE wokenBy

\* The body runs on from a co_await that ended with out, up to its next
\* channel operation or its end; at its end final_suspend finds no
\* continuation and control returns to whoever resumed the coroutine.
Advance(a, out) ==
    /\ pc' = [pc EXCEPT ![a] = NextOp(a, out)]
    /\ stack' = IF NextOp(a, out) = "done" THEN Pop(Thr(a)) ELSE stack
    /\ NewAwaiter(a, NextOp(a, out))

\* Task::resume() on a created task (initial_suspend is suspend_always) by a
\* thread of its own; the main thread goes straight to channel->close().
Start(a) ==
    /\ pc[a] = "created"
    /\ stack' = [stack EXCEPT ![a] = <<a>>]
    /\ pc' = [pc EXCEPT ![a] = NextOp(a, "none")]
    /\ NewAwaiter(a, NextOp(a, "none"))
    /\ UNCHANGED <<chan, mutex_, cfg, outcome, sentOK, received, call, firstCloser, queuedAtClose>>
    /\ UNCHANGED <<svars, tvars, mvars>>

\* ---- Channel::SendAwaiter ----

\* await_ready(): !closed_ && (buffer_.size() < capacity_ || !receive_waiters_.empty())
SendAwaitReady ==
    ~closed_ /\ (Len(buffer_) < capacity_ \/ receive_waiters_ # <<>>)

\* co_await evaluates await_ready() under the mutex; true skips await_suspend.
SendReady(p) ==
    /\ pc[p] = "s_ready" /\ Running(p) /\ mutex_ = Free
    /\ call' = [call EXCEPT ![p] = Snapshot(SendAwaitReady)]
    /\ pc' = [pc EXCEPT ![p] = IF SendAwaitReady THEN "s_resume" ELSE "s_suspend"]
    /\ UNCHANGED <<chan, mutex_, stack, cfg, idx, awt,
                   outcome, sentOK, received, wokenBy, firstCloser, queuedAtClose>>
    /\ UNCHANGED <<svars, tvars, mvars>>

\* Variant: await_suspend that pushes to the buffer without the test
\* buffer_.size() < capacity_ of line 75.
SendSuspendNoCapCheck(p) ==
    /\ pc[p] = "s_suspend" /\ Running(p) /\ mutex_ = Free
    /\ IF closed_
       THEN /\ outcome' = [outcome EXCEPT ![p] = "closed"]
            /\ Advance(p, "closed")
            /\ UNCHANGED <<chan, mutex_>>
       ELSE IF receive_waiters_ # <<>>
       THEN LET receiver == Head(receive_waiters_) IN
            /\ receive_waiters_' = Tail(receive_waiters_)
            /\ receiver_result_' = [receiver_result_ EXCEPT ![p] = value_[p]]
            /\ mutex_' = Thr(p)
            /\ stack' = Push(Thr(p), receiver)
            /\ pc' = [pc EXCEPT ![p] = "s_in_suspend", ![receiver] = "r_resume"]
            /\ wokenBy' = [wokenBy EXCEPT ![receiver] = "send"]
            /\ UNCHANGED <<capacity_, closed_, buffer_, send_waiters_, value_, result_, outcome, idx>>
       ELSE IF TRUE
       THEN /\ buffer_' = Append(buffer_, value_[p])
            /\ pc' = [pc EXCEPT ![p] = "s_suspended"]
            /\ stack' = Pop(Thr(p))
            /\ UNCHANGED <<capacity_, closed_, send_waiters_, receive_waiters_, mutex_, awt,
                           outcome, wokenBy, idx>>
       ELSE /\ send_waiters_' = Append(send_waiters_, [handle |-> p, value |-> value_[p]])
            /\ pc' = [pc EXCEPT ![p] = "s_suspended"]
            /\ stack' = Pop(Thr(p))
            /\ UNCHANGED <<capacity_, closed_, buffer_, receive_waiters_, mutex_, awt,
                           outcome, wokenBy, idx>>
    /\ UNCHANGED <<cfg, sentOK, received, call, firstCloser, queuedAtClose>>
    /\ UNCHANGED <<svars, tvars, mvars>>

\* await_suspend(handle): throws when closed; hands over to a waiting receiver
\* (resumed inline, mutex held); pushes to the buffer; or queues the sender.
SendSuspend(p) ==
    /\ pc[p] = "s_suspend" /\ Running(p) /\ mutex_ = Free
    /\ IF closed_
       THEN /\ outcome' = [outcome EXCEPT ![p] = "closed"]
            /\ Advance(p, "closed")
            /\ UNCHANGED <<chan, mutex_>>
       ELSE IF receive_waiters_ # <<>>
       THEN LET receiver == Head(receive_waiters_) IN
            /\ receive_waiters_' = Tail(receive_waiters_)
            /\ receiver_result_' = [receiver_result_ EXCEPT ![p] = value_[p]]
            /\ mutex_' = Thr(p)
            /\ stack' = Push(Thr(p), receiver)
            /\ pc' = [pc EXCEPT ![p] = "s_in_suspend", ![receiver] = "r_resume"]
            /\ wokenBy' = [wokenBy EXCEPT ![receiver] = "send"]
            /\ UNCHANGED <<capacity_, closed_, buffer_, send_waiters_, value_, result_, outcome, idx>>
       ELSE IF Len(buffer_) < capacity_
       THEN /\ buffer_' = Append(buffer_, value_[p])
            /\ pc' = [pc EXCEPT ![p] = "s_suspended"]
            /\ stack' = Pop(Thr(p))
            /\ UNCHANGED <<capacity_, closed_, send_waiters_, receive_waiters_, mutex_, awt,
                           outcome, wokenBy, idx>>
       ELSE /\ send_waiters_' = Append(send_waiters_, [handle |-> p, value |-> value_[p]])
            /\ pc' = [pc EXCEPT ![p] = "s_suspended"]
            /\ stack' = Pop(Thr(p))
            /\ UNCHANGED <<capacity_, closed_, buffer_, receive_waiters_, mutex_, awt,
                           outcome, wokenBy, idx>>
    /\ UNCHANGED <<cfg, sentOK, received, call, firstCloser, queuedAtClose>>
    /\ UNCHANGED <<svars, tvars, mvars>>

\* receiver.resume() has returned: await_suspend returns, the lock_guard
\* releases the mutex, and the sender stays suspended.
SendSuspendReturn(p) ==
    /\ pc[p] = "s_in_suspend" /\ Running(p)
    /\ mutex_' = Free
    /\ pc' = [pc EXCEPT ![p] = "s_suspended"]
    /\ stack' = Pop(Thr(p))
    /\ UNCHANGED <<chan, cfg, idx, awt, obs>>
    /\ UNCHANGED <<svars, tvars, mvars>>

\* Variant: await_resume() without the closed_ check.
SendResumeAlwaysOk == "ok"

\* await_resume(): throws when closed_, otherwise the send has succeeded.
SendResumeOutcome == IF closed_ THEN "closed" ELSE "ok"

SendResume(p) ==
    /\ pc[p] = "s_resume" /\ Running(p)
    /\ outcome' = [outcome EXCEPT ![p] = SendResumeOutcome]
    /\ sentOK' = [sentOK EXCEPT ![p] = IF SendResumeOutcome = "ok"
                                        THEN Append(sentOK[p], value_[p]) ELSE sentOK[p]]
    /\ Advance(p, SendResumeOutcome)
    /\ UNCHANGED <<chan, mutex_, cfg, received, call, firstCloser, queuedAtClose>>
    /\ UNCHANGED <<svars, tvars, mvars>>

\* ---- Channel::ReceiveAwaiter ----

\* Variant: await_ready() that leaves closed_ out.
ReceiveAwaitReadyNoClosed ==
    buffer_ # <<>> \/ send_waiters_ # <<>>

\* await_ready(): !buffer_.empty() || !send_waiters_.empty() || closed_
ReceiveAwaitReady ==
    buffer_ # <<>> \/ send_waiters_ # <<>> \/ closed_

ReceiveReady(c) ==
    /\ pc[c] = "r_ready" /\ Running(c) /\ mutex_ = Free
    /\ call' = [call EXCEPT ![c] = Snapshot(ReceiveAwaitReady)]
    /\ pc' = [pc EXCEPT ![c] = IF ReceiveAwaitReady THEN "r_resume" ELSE "r_suspend"]
    /\ UNCHANGED <<chan, mutex_, stack, cfg, idx, awt,
                   outcome, sentOK, received, wokenBy, firstCloser, queuedAtClose>>
    /\ UNCHANGED <<svars, tvars, mvars>>

\* Variant: await_suspend that queues the receiver although a sender waits
\* (without the branch of lines 139-148).
ReceiveSuspendQueuesAlways(c) ==
    /\ pc[c] = "r_suspend" /\ Running(c) /\ mutex_ = Free
    /\ IF buffer_ # <<>>
       THEN /\ result_' = [result_ EXCEPT ![c] = Head(buffer_)]
            /\ IF send_waiters_ # <<>>
               THEN LET sender == Head(send_waiters_) IN
                    /\ send_waiters_' = Tail(send_waiters_)
                    /\ buffer_' = Append(Tail(buffer_), sender.value)
                    /\ mutex_' = Thr(c)
                    /\ stack' = Push(Thr(c), sender.handle)
                    /\ pc' = [pc EXCEPT ![c] = "r_in_suspend", ![sender.handle] = "s_resume"]
                    /\ wokenBy' = [wokenBy EXCEPT ![sender.handle] = "receive"]
               ELSE /\ buffer_' = Tail(buffer_)
                    /\ pc' = [pc EXCEPT ![c] = "r_suspended"]
                    /\ stack' = Pop(Thr(c))
                    /\ UNCHANGED <<send_waiters_, mutex_, wokenBy>>
            /\ UNCHANGED <<receive_waiters_>>
       ELSE IF FALSE
       THEN LET sender == Head(send_waiters_) IN
            /\ send_waiters_' = Tail(send_waiters_)
            /\ result_' = [result_ EXCEPT ![c] = sender.value]
            /\ mutex_' = Thr(c)
            /\ stack' = Push(Thr(c), sender.handle)
            /\ pc' = [pc EXCEPT ![c] = "r_in_suspend", ![sender.handle] = "s_resume"]
            /\ wokenBy' = [wokenBy EXCEPT ![sender.handle] = "receive"]
            /\ UNCHANGED <<buffer_, receive_waiters_>>
       ELSE IF closed_
       THEN /\ pc' = [pc EXCEPT ![c] = "r_suspended"]
            /\ stack' = Pop(Thr(c))
            /\ UNCHANGED <<buffer_, send_waiters_, receive_waiters_, mutex_, result_, wokenBy>>
       ELSE /\ receive_waiters_' = Append(receive_waiters_, c)
            /\ pc' = [pc EXCEPT ![c] = "r_suspended"]
            /\ stack' = Pop(Thr(c))
            /\ UNCHANGED <<buffer_, send_waiters_, mutex_, result_, wokenBy>>
    /\ UNCHANGED <<capacity_, closed_, cfg, idx, value_, receiver_result_,
                   outcome, sentOK, received, call, firstCloser, queuedAtClose>>
    /\ UNCHANGED <<svars, tvars, mvars>>

\* await_suspend(handle): takes the buffer front (and refills the buffer from
\* the first waiting sender, resumed inline), or takes the first waiting
\* sender's value, or returns on a closed channel, or queues the receiver.
ReceiveSuspend(c) ==
    /\ pc[c] = "r_suspend" /\ Running(c) /\ mutex_ = Free
    /\ IF buffer_ # <<>>
       THEN /\ result_' = [result_ EXCEPT ![c] = Head(buffer_)]
            /\ IF send_waiters_ # <<>>
               THEN LET sender == Head(send_waiters_) IN
                    /\ send_waiters_' = Tail(send_waiters_)
                    /\ buffer_' = Append(Tail(buffer_), sender.value)
                    /\ mutex_' = Thr(c)
                    /\ stack' = Push(Thr(c), sender.handle)
                    /\ pc' = [pc EXCEPT ![c] = "r_in_suspend", ![sender.handle] = "s_resume"]
                    /\ wokenBy' = [wokenBy EXCEPT ![sender.handle] = "receive"]
               ELSE /\ buffer_' = Tail(buffer_)
                    /\ pc' = [pc EXCEPT ![c] = "r_suspended"]
                    /\ stack' = Pop(Thr(c))
                    /\ UNCHANGED <<send_waiters_, mutex_, wokenBy>>
            /\ UNCHANGED <<receive_waiters_>>
       ELSE IF send_waiters_ # <<>>
       THEN LET sender == Head(send_waiters_) IN
            /\ send_waiters_' = Tail(send_waiters_)
            /\ result_' = [result_ EXCEPT ![c] = sender.value]
            /\ mutex_' = Thr(c)
            /\ stack' = Push(Thr(c), sender.handle)
            /\ pc' = [pc EXCEPT ![c] = "r_in_suspend", ![sender.handle] = "s_resume"]
            /\ wokenBy' = [wokenBy EXCEPT ![sender.handle] = "receive"]
            /\ UNCHANGED <<buffer_, receive_waiters_>>
       ELSE IF closed_
       THEN /\ pc' = [pc EXCEPT ![c] = "r_suspended"]
            /\ stack' = Pop(Thr(c))
            /\ UNCHANGED <<buffer_, send_waiters_, receive_waiters_, mutex_, result_, wokenBy>>
       ELSE /\ receive_waiters_' = Append(receive_waiters_, c)
            /\ pc' = [pc EXCEPT ![c] = "r_suspended"]
            /\ stack' = Pop(Thr(c))
            /\ UNCHANGED <<buffer_, send_waiters_, mutex_, result_, wokenBy>>
    /\ UNCHANGED <<capacity_, closed_, cfg, idx, value_, receiver_result_,
                   outcome, sentOK, received, call, firstCloser, queuedAtClose>>
    /\ UNCHANGED <<svars, tvars, mvars>>

\* sender.handle.resume() has returned: await_suspend returns, the lock_guard
\* releases the mutex, and the receiver stays suspended.
ReceiveSuspendReturn(c) ==
    /\ pc[c] = "r_in_suspend" /\ Running(c)
    /\ mutex_' = Free
    /\ pc' = [pc EXCEPT ![c] = "r_suspended"]
    /\ stack' = Pop(Thr(c))
    /\ UNCHANGED <<chan, cfg, idx, awt, obs>>
    /\ UNCHANGED <<svars, tvars, mvars>>

\* await_resume(): the value in result_, else ChannelClosed when closed_,
\* else the "should not happen" error.
ReceiveResumeOutcome(c) ==
    IF result_[c] # None THEN "ok" ELSE IF closed_ THEN "closed" ELSE "abnormal"

ReceiveResume(c) ==
    /\ pc[c] = "r_resume" /\ Running(c)
    /\ outcome' = [outcome EXCEPT ![c] = ReceiveResumeOutcome(c)]
    /\ received' = [received EXCEPT ![c] = IF ReceiveResumeOutcome(c) = "ok"
                                            THEN Append(received[c], result_[c])
                                            ELSE received[c]]
    /\ Advance(c, ReceiveResumeOutcome(c))
    /\ UNCHANGED <<chan, mutex_, cfg, sentOK, call, firstCloser, queuedAtClose>>
    /\ UNCHANGED <<svars, tvars, mvars>>

\* ---- Channel::close ----

Handles(q) == {q[i].handle : i \in 1..Len(q)}
Elems(q)   == {q[i] : i \in 1..Len(q)}

\* close() without the early return of line 206: a call on a closed channel
\* runs the whole of close() again.
CloseAgain(a) ==
    /\ pc[a] = "close" /\ Running(a) /\ mutex_ = Free
    /\ closed_' = TRUE
    /\ mutex_' = Thr(a)
    /\ pc' = [pc EXCEPT ![a] = "close_recv"]
    /\ firstCloser' = a
    /\ queuedAtClose' = Handles(send_waiters_) \cup Elems(receive_waiters_)
    /\ UNCHANGED <<capacity_, buffer_, send_waiters_, receive_waiters_, stack, cfg, idx, awt,
                   outcome, sentOK, received, call, wokenBy>>
    /\ UNCHANGED <<svars, tvars, mvars>>

\* close(): returns at once when already closed, else sets closed_ and keeps
\* the mutex for the two wake-up loops.
Close(a) ==
    /\ pc[a] = "close" /\ Running(a) /\ mutex_ = Free
    /\ IF closed_
       THEN /\ pc' = [pc EXCEPT ![a] = "done"]
            /\ stack' = Pop(Thr(a))
            /\ UNCHANGED <<closed_, mutex_, firstCloser, queuedAtClose>>
       ELSE /\ closed_' = TRUE
            /\ mutex_' = Thr(a)
            /\ pc' = [pc EXCEPT ![a] = "close_recv"]
            /\ firstCloser' = a
            /\ queuedAtClose' = Handles(send_waiters_) \cup Elems(receive_waiters_)
            /\ UNCHANGED stack
    /\ UNCHANGED <<capacity_, buffer_, send_waiters_, receive_waiters_, cfg, idx, awt,
                   outcome, sentOK, received, call, wokenBy>>
    /\ UNCHANGED <<svars, tvars, mvars>>

\* Variant: the loop of close() without receive_waiters_.pop().
CloseWakeReceiversNoPop(a) ==
    /\ pc[a] = "close_recv" /\ Running(a)
    /\ IF receive_waiters_ # <<>>
       THEN LET receiver == Head(receive_waiters_) IN
            /\ receive_waiters_' = receive_waiters_
            /\ stack' = Push(Thr(a), receiver)
            /\ pc' = [pc EXCEPT ![receiver] = "r_resume"]
            /\ wokenBy' = [wokenBy EXCEPT ![receiver] = "close"]
       ELSE /\ pc' = [pc EXCEPT ![a] = "close_send"]
            /\ UNCHANGED <<receive_waiters_, stack, wokenBy>>
    /\ UNCHANGED <<capacity_, closed_, buffer_, send_waiters_, mutex_, cfg, idx, awt,
                   outcome, sentOK, received, call, firstCloser, queuedAtClose>>
    /\ UNCHANGED <<svars, tvars, mvars>>

\* while (!receive_waiters_.empty()) { pop; receiver.resume(); }
CloseWakeReceivers(a) ==
    /\ pc[a] = "close_recv" /\ Running(a)
    /\ IF receive_waiters_ # <<>>
       THEN LET receiver == Head(receive_waiters_) IN
            /\ receive_waiters_' = Tail(receive_waiters_)
            /\ stack' = Push(Thr(a), receiver)
            /\ pc' = [pc EXCEPT ![receiver] = "r_resume"]
            /\ wokenBy' = [wokenBy EXCEPT ![receiver] = "close"]
       ELSE /\ pc' = [pc EXCEPT ![a] = "close_send"]
            /\ UNCHANGED <<receive_waiters_, stack, wokenBy>>
    /\ UNCHANGED <<capacity_, closed_, buffer_, send_waiters_, mutex_, cfg, idx, awt,
                   outcome, sentOK, received, call, firstCloser, queuedAtClose>>
    /\ UNCHANGED <<svars, tvars, mvars>>

\* Variant: close() that returns without the loop over send_waiters_.
CloseSkipsSenders(a) ==
    /\ pc[a] = "close_send" /\ Running(a)
    /\ mutex_' = Free
    /\ pc' = [pc EXCEPT ![a] = "done"]
    /\ stack' = Pop(Thr(a))
    /\ UNCHANGED <<chan, cfg, idx, awt, obs>>
    /\ UNCHANGED <<svars, tvars, mvars>>

\* Variant: the loop of close() taking send_waiters_ from the back.
CloseWakeSendersLifo(a) ==
    /\ pc[a] = "close_send" /\ Running(a)
    /\ IF send_waiters_ # <<>>
       THEN LET sender == send_waiters_[Len(send_waiters_)] IN
            /\ send_waiters_' = SubSeq(send_waiters_, 1, Len(send_waiters_) - 1)
            /\ stack' = Push(Thr(a), sender.handle)
            /\ pc' = [pc EXCEPT ![sender.handle] = "s_resume"]
            /\ wokenBy' = [wokenBy EXCEPT ![sender.handle] = "close"]
            /\ UNCHANGED mutex_
       ELSE /\ mutex_' = Free
            /\ pc' = [pc EXCEPT ![a] = "done"]
            /\ stack' = Pop(Thr(a))
            /\ UNCHANGED <<send_waiters_, wokenBy>>
    /\ UNCHANGED <<capacity_, closed_, buffer_, receive_waiters_, cfg, idx, awt,
                   outcome, sentOK, received, call, firstCloser, queuedAtClose>>
    /\ UNCHANGED <<svars, tvars, mvars>>

\* while (!send_waiters_.empty()) { pop; sender.handle.resume(); }, then return.
CloseWakeSenders(a) ==
    /\ pc[a] = "close_send" /\ Running(a)
    /\ IF send_waiters_ # <<>>
       THEN LET sender == Head(send_waiters_) IN
            /\ send_waiters_' = Tail(send_waiters_)
            /\ stack' = Push(Thr(a), sender.handle)
            /\ pc' = [pc EXCEPT ![sender.handle] = "s_resume"]
            /\ wokenBy' = [wokenBy EXCEPT ![sender.handle] = "close"]
            /\ UNCHANGED mutex_
       ELSE /\ mutex_' = Free
            /\ pc' = [pc EXCEPT ![a] = "done"]
            /\ stack' = Pop(Thr(a))
            /\ UNCHANGED <<send_waiters_, wokenBy>>
    /\ UNCHANGED <<capacity_, closed_, buffer_, receive_waiters_, cfg, idx, awt,
                   outcome, sentOK, received, call, firstCloser, queuedAtClose>>
    /\ UNCHANGED <<svars, tvars, mvars>>

Next ==
    \/ \E a \in Agents : Start(a)
    \/ \E a \in Agents : SendReady(a)
    \/ \E a \in Agents : SendSuspend(a)
    \/ \E a \in Agents : SendSuspendReturn(a)
    \/ \E a \in Agents : SendResume(a)
    \/ \E a \in Agents : ReceiveReady(a)
    \/ \E a \in Agents : ReceiveSuspend(a)
    \/ \E a \in Agents : ReceiveSuspendReturn(a)
    \/ \E a \in Agents : ReceiveResume(a)
    \/ \E a \in Agents : Close(a)
    \/ \E a \in Agents : CloseWakeReceivers(a)
    \/ \E a \in Agents : CloseWakeSenders(a)

Spec == Init /\ [][Next]_vars

TypeOK ==
    /\ capacity_ \in 0..MaxCap
    /\ closed_ \in BOOLEAN
    /\ mutex_ \in Agents \cup {Free}
    /\ \A a \in Agents : pc[a] \in {"created", "done", "close", "close_recv",
            "close_send", "s_ready", "s_suspend", "s_in_suspend", "s_suspended", "s_resume",
            "r_ready", "r_suspend", "r_in_suspend", "r_suspended", "r_resume"}

\* ---- observations used by the properties ----

Range(q)  == {q[i] : i \in 1..Len(q)}
Last(q)   == q[Len(q)]
Active    == {a \in Agents : cfg[a].role # "none"}
\* Nothing can move any more: every party has ended or is suspended.
Quiescent == \A a \in Agents : pc[a] \in {"done", "s_suspended", "r_suspended"}
\* A consumer issues its first receive() as soon as it is started.
NoReceiveIssued == \A c \in Consumers : cfg[c].role = "consumer" => pc[c] = "created"
\* The producer has got past its latest send (to its next operation or its end).
SendReturned(p) == pc[p] \in {"s_ready", "close", "close_recv", "close_send", "done"}
CloseReturned == firstCloser # "none" /\ pc[firstCloser] = "done"
\* The value is in nobody's hands on the receiving side.
NotDelivered(v) ==
    /\ v \notin Range(buffer_)
    /\ \A c \in Consumers : v \notin Range(received[c]) /\ result_[c] # v

\* ---- C1 ----
\* C1: a producer sends 0,1,2,3,4 into a capacity-2 channel and then closes
\* it, a consumer receives until ChannelClosed: once nothing can move any
\* more the consumer has ended on ChannelClosed and its receives returned
\* exactly 0,1,2,3,4 in that order.
C1_EndToEnd ==
    ( /\ capacity_ = 2
      /\ Active = {"p1", "c1"}
      /\ cfg["p1"] = ProducerCfg(0, 5, TRUE)
      /\ Quiescent )
    => ( /\ pc["c1"] = "done"
         /\ outcome["c1"] = "closed"
         /\ received["c1"] = <<0, 1, 2, 3, 4>> )

\* ---- C2 ----
\* C2: one producer sends 1,2,3 on a capacity-2 channel that nobody closes
\* while one consumer receives: the consumer's receives never fail, what it
\* has received is always a prefix of 1,2,3, and once nothing can move any
\* more it has received 1,2,3.
C2_FifoOrder ==
    ( /\ capacity_ = 2
      /\ Active = {"p1", "c1"}
      /\ cfg["p1"] = ProducerCfg(1, 3, FALSE) )
    => ( /\ ~Failed(outcome["c1"])
         /\ received["c1"] = SubSeq(<<1, 2, 3>>, 1, Len(received["c1"]))
         /\ Quiescent => received["c1"] = <<1, 2, 3>> )

\* ---- C3 ----
\* C3: on a capacity-2 channel on which no receive and no close has been
\* issued, a single producer has at most two sends completed: its third send
\* stays suspended.
C3_Backpressure ==
    ( /\ capacity_ = 2
      /\ Active \cap Producers = {"p1"}
      /\ NoReceiveIssued
      /\ ~closed_ /\ \A a \in Agents : pc[a] # "close" )
    => Len(sentOK["p1"]) <= 2

\* ---- C4 ----
\* C4: capacity 1, a producer sends one value successfully and then closes,
\* and the only consumer issues its first receive after that close: this
\* receive returns the value, and only the next one fails with ChannelClosed.
C4_CloseDraining ==
    [][ ( /\ capacity_ = 1
          /\ Active = {"p1", "c1"}
          /\ cfg["p1"].count = 1 /\ cfg["p1"].close
          /\ pc["c1"] = "r_resume" /\ pc'["c1"] # "r_resume"
          /\ call["c1"].closed
          /\ Len(sentOK["p1"]) = 1 )
        => IF received["c1"] = <<>>
           THEN outcome'["c1"] = "ok" /\ received'["c1"] = sentOK["p1"]
           ELSE outcome'["c1"] = "closed" /\ received'["c1"] = sentOK["p1"] ]_vars

\* ---- C5 ----
\* C5: a receive whose await_ready finds the channel closed, the buffer empty
\* and no sender waiting goes straight to await_resume and fails there with
\* ChannelClosed; neither step changes the channel, and the receiver is never
\* put into receive_waiters_.
C5_ClosedEmptyReceiveFails ==
    [][ \A c \in Consumers :
          /\ ( /\ pc[c] = "r_ready" /\ pc'[c] # "r_ready"
               /\ closed_ /\ buffer_ = <<>> /\ send_waiters_ = <<>> )
             => ( /\ pc'[c] = "r_resume"
                  /\ UNCHANGED chan
                  /\ c \notin Elems(receive_waiters_') )
          /\ ( /\ pc[c] = "r_resume" /\ pc'[c] # "r_resume"
               /\ call[c].ready /\ call[c].closed
               /\ call[c].buffered = 0 /\ call[c].senders = 0 )
             => ( /\ outcome'[c] = "closed"
                  /\ pc'[c] = "done"
                  /\ received'[c] = received[c]
                  /\ UNCHANGED chan ) ]_vars

\* A consumer has ended on such a receive, without ever having been queued.
C5_Witness ==
    \E c \in Consumers :
        /\ pc[c] = "done" /\ outcome[c] = "closed" /\ wokenBy[c] = "none"
        /\ call[c].ready /\ call[c].closed /\ call[c].buffered = 0 /\ call[c].senders = 0

\* ---- C6 ----
\* C6: a send whose await_ready found the channel closed has failed with
\* ChannelClosed once it returns, and so has a send that close() resumed from
\* send_waiters_; a send that failed is not counted as sent, and its value is
\* neither in the buffer nor in a receiver's hands.
C6_SendOnClosedFails ==
    \A p \in Producers :
        /\ (SendReturned(p) /\ call[p].closed) => outcome[p] = "closed"
        /\ (SendReturned(p) /\ wokenBy[p] = "close") => outcome[p] = "closed"
        /\ (pc[p] = "done" /\ outcome[p] = "closed")
           => ( /\ value_[p] \notin Range(sentOK[p])
                /\ NotDelivered(value_[p])
                /\ \A i \in 1..Len(send_waiters_) : send_waiters_[i].handle # p )

\* One sender was resumed by close() and another called send after the close.
C6_Witness ==
    \E p, q \in Producers :
        /\ pc[p] = "done" /\ wokenBy[p] = "close" /\ outcome[p] = "closed"
        /\ pc[q] = "done" /\ call[q].closed /\ outcome[q] = "closed"

\* ---- C7 ----
\* C7: a single producer, no receive issued: after a send whose await_ready
\* found the channel open with room in the buffer and no receiver waiting has
\* returned successfully, the buffer is one longer than it was and ends with
\* the sent value.
C7_SendBuffers ==
    \A p \in Producers :
        ( /\ Active \cap Producers = {p}
          /\ NoReceiveIssued
          /\ SendReturned(p) /\ outcome[p] = "ok"
          /\ call[p].ready /\ ~call[p].closed
          /\ call[p].buffered < capacity_ /\ call[p].receivers = 0 )
        => ( /\ Len(buffer_) = call[p].buffered + 1
             /\ Last(buffer_) = Last(sentOK[p]) )

\* ---- C8 ----
\* C8: when a send whose await_ready found the channel open and a receiver
\* waiting returns successfully, the receiver that was first in
\* receive_waiters_ is out of the queue and holds exactly the sent value.
C8_DirectHandoff ==
    [][ \A p \in Producers :
          ( /\ pc[p] = "s_resume" /\ pc'[p] # "s_resume"
            /\ call[p].ready /\ ~call[p].closed /\ call[p].receivers > 0
            /\ outcome'[p] = "ok" )
          => ( /\ call[p].first \notin Elems(receive_waiters_')
               /\ \/ result_'[call[p].first] = value_[p]
                  \/ value_[p] \in Range(received'[call[p].first]) ) ]_vars

\* ---- C9 ----
\* C9: a receive whose await_ready found the channel open with a value in the
\* buffer or a sender waiting goes straight to await_resume and returns the
\* value at the front (of the buffer, else of the first waiting sender).
C9_ReceiveImmediate ==
    [][ \A c \in Consumers :
          /\ ( /\ pc[c] = "r_ready" /\ pc'[c] # "r_ready"
               /\ (buffer_ # <<>> \/ send_waiters_ # <<>>) )
             => pc'[c] = "r_resume"
          /\ ( /\ pc[c] = "r_resume" /\ pc'[c] # "r_resume"
               /\ call[c].ready /\ ~call[c].closed
               /\ (call[c].buffered > 0 \/ call[c].senders > 0) )
             => ( /\ outcome'[c] = "ok"
                  /\ received'[c] = Append(received[c], call[c].front) ) ]_vars

\* ---- C10 ----
\* C10: once the close() that set closed_ has returned, send_waiters_ and
\* receive_waiters_ are empty, and every sender and receiver that was queued
\* when it set closed_ has been resumed by it and has seen ChannelClosed.
C10_CloseWakesAll ==
    CloseReturned
    => ( /\ send_waiters_ = <<>>
         /\ receive_waiters_ = <<>>
         /\ \A a \in queuedAtClose :
                wokenBy[a] = "close" /\ outcome[a] = "closed" /\ pc[a] = "done" )

\* The close found at least two waiters queued.
C10_Witness ==
    CloseReturned /\ Cardinality(queuedAtClose) >= 2

\* C11: close() is idempotent and closed is monotone.  Once closed_ is true no
\* step makes it false again, and a close() call that finds the channel
\* already closed returns at once: it changes no field of the channel, wakes
\* nobody and keeps no lock.
C11_CloseIdempotent ==
    [][ /\ (closed_ => closed_')
        /\ \A a \in Agents :
              (pc[a] = "close" /\ closed_ /\ pc'[a] # pc[a]) =>
                  /\ pc'[a] = "done"
                  /\ UNCHANGED <<chan, mutex_, wokenBy, outcome, queuedAtClose, firstCloser>>
      ]_vars

\* main called close() after p1 had closed the channel, and has returned.
C11_Witness ==
    /\ cfg["main"].role = "closer"
    /\ pc["main"] = "done"
    /\ firstCloser = "p1"
    /\ closed_

\* C26: in every reachable state the buffer holds at most capacity_ values.
C26_BufferBounded == Len(buffer_) <= capacity_

\* a channel of capacity 1 on which two sends have returned success and which
\* has been closed: the buffer is within the capacity
C26_Witness ==
    /\ capacity_ = 1
    /\ Len(sentOK["p1"]) >= 2
    /\ closed_
    /\ Len(buffer_) <= capacity_

\* C27: with the mutex free, send_waiters_ is non-empty only if the buffer
\* holds exactly capacity_ values and the channel is open.
C27_SendersWaitOnlyWhenFull ==
    (mutex_ = Free /\ send_waiters_ # <<>>) => (Len(buffer_) = capacity_ /\ ~closed_)

\* two senders wait on an open, full channel
C27_Witness ==
    /\ mutex_ = Free
    /\ Len(send_waiters_) = 2
    /\ Len(buffer_) = capacity_ /\ ~closed_

\* C28: with the mutex free, receive_waiters_ is non-empty only if the buffer
\* and send_waiters_ are empty; the two waiter queues are never both
\* non-empty.
C28_ReceiversWaitOnlyWhenEmpty ==
    /\ (mutex_ = Free /\ receive_waiters_ # <<>>) => (buffer_ = <<>> /\ send_waiters_ = <<>>)
    /\ ~(send_waiters_ # <<>> /\ receive_waiters_ # <<>>)

\* two receivers wait, and a sender has gone through a send() meanwhile
C28_Witness ==
    /\ mutex_ = Free
    /\ Len(receive_waiters_) = 2
    /\ \E p \in Producers : sentOK[p] # <<>>

\* the handles in the two waiter queues
Queued == Handles(send_waiters_) \cup Elems(receive_waiters_)
NoDuplicate ==
    /\ Cardinality(Handles(send_waiters_)) = Len(send_waiters_)
    /\ Cardinality(Elems(receive_waiters_)) = Len(receive_waiters_)
    /\ Handles(send_waiters_) \cap Elems(receive_waiters_) = {}

\* C29: the channel never resumes a waiter twice.  A coroutine that the
\* channel resumes was suspended, in a waiter queue, and not yet resumed for
\* this call; the step takes it out of the queue; and no coroutine is in the
\* queues twice.
C29_NoDoubleResume ==
    [][ /\ NoDuplicate'
        /\ \A a \in Agents :
              (wokenBy'[a] # wokenBy[a] /\ wokenBy'[a] # "none") =>
                  /\ wokenBy[a] = "none"
                  /\ pc[a] \in {"s_suspended", "r_suspended"}
                  /\ a \in Queued
                  /\ a \notin Queued'
      ]_vars

\* p1 and p2 were both queued and have both been resumed, one by a receiver
\* and one by close()
C29_Witness ==
    /\ {wokenBy["p1"], wokenBy["p2"]} = {"receive", "close"}
    /\ Queued = {}

\* C30: both waiter queues are FIFO.  A queue changes only by a new waiter
\* added at its back or by its front waiter taken out, and the coroutine that
\* is resumed is that front waiter: no later waiter is served while an
\* earlier one is queued.
C30_WaitersFifo ==
    [][ /\ send_waiters_' # send_waiters_ =>
              \/ \E p \in Producers :
                     send_waiters_' = Append(send_waiters_, [handle |-> p, value |-> value_[p]])
              \/ /\ send_waiters_ # <<>>
                 /\ send_waiters_' = Tail(send_waiters_)
                 /\ wokenBy'[Head(send_waiters_).handle] # "none"
        /\ receive_waiters_' # receive_waiters_ =>
              \/ \E c \in Consumers : receive_waiters_' = Append(receive_waiters_, c)
              \/ /\ receive_waiters_ # <<>>
                 /\ receive_waiters_' = Tail(receive_waiters_)
                 /\ wokenBy'[Head(receive_waiters_)] # "none"
      ]_vars

\* a receiver took the first of two queued senders; the second is still
\* queued behind it
C30_Witness ==
    /\ \E c \in Consumers : pc[c] = "r_in_suspend"
    /\ wokenBy["p1"] = "receive"
    /\ Len(send_waiters_) = 1 /\ Head(send_waiters_).handle = "p2"

\* C36: no coroutine is stranded by a channel operation.  A sender or
\* receiver that is suspended, with control out of its await_suspend, is in
\* send_waiters_ or receive_waiters_.  (Only a step that takes a coroutine out
\* of a waiter queue resumes it, so one that is suspended outside the queues
\* stays suspended.)
C36_NoStranded ==
    \A a \in Agents : pc[a] \in {"s_suspended", "r_suspended"} => a \in Queued

\* the number of places that hold the value v: the buffer, the waiting
\* senders, the results of the receives made and in progress
Count(q, v) == Cardinality({i \in 1..Len(q) : q[i] = v})
Places(v) ==
    Count(buffer_, v)
    + Cardinality({i \in 1..Len(send_waiters_) : send_waiters_[i].value = v})
    + Cardinality({c \in Consumers : result_[c] = v})
    + Cardinality({c \in Consumers : Count(received[c], v) > 0})

\* C37: value conservation.  Every value whose send returned without error is
\* in exactly one place: the buffer, an entry of send_waiters_, or the result
\* of one receive; and a receive returns only values that a send was called
\* with, each at most once.
C37_ValueConservation ==
    /\ \A p \in Producers : \A i \in 1..Len(sentOK[p]) : Places(sentOK[p][i]) = 1
    /\ \A c \in Consumers : \A i \in 1..Len(received[c]) :
          /\ \E p \in Producers :
                /\ cfg[p].role = "producer"
                /\ received[c][i] \in cfg[p].start .. (cfg[p].start + idx[p] - 1)
          /\ Count(received[c], received[c][i]) = 1

\* C38: a receive fails only with ChannelClosed, and only on a closed
\* channel: no receive has ended in the "should not happen" error of
\* await_resume, and one that ended with ChannelClosed found closed_ set.
C38_ReceiveFailsOnlyClosed ==
    \A c \in Consumers :
        /\ outcome[c] # "abnormal"
        /\ outcome[c] = "closed" => closed_

\* C39: channel operations never self-deadlock.  A coroutine that is about to
\* lock the channel's mutex (in await_ready, await_suspend or close) does not
\* run on a thread that holds it.
C39_NoSelfDeadlock ==
    \A a \in Agents :
        (Running(a) /\ pc[a] \in {"s_ready", "s_suspend", "r_ready", "r_suspend", "close"})
           => mutex_ # Thr(a)

\* ======================================================================
\* Scheduler (include/coroutine/scheduler.h)
\* ======================================================================
\* Threads: the client "main" calls start(), schedule() and stop(); the client
\* "aux" calls stop() and wait_for_all(); the workers run worker_thread().
\* A thread's position is in tpc:
\*   clients: "idle" (between calls), "inline" (inside handle.resume() called
\*            by schedule, mutex_ held), "notify" (before notify_one),
\*            "wfa_wait" / "wfa_lock" (wait_for_all: blocked / woken),
\*   workers: "none" (not spawned), "lock" (top of the loop, before it takes
\*            mutex_), "wait" (blocked in condition_.wait), "exec" (entry
\*            taken, mutex_ released), "in_resume" (inside handle.resume()),
\*            "exited" (left the loop),
\*   both:    "stop_notify", "stop_join" (inside stop(), after its first
\*            block), "hung" (blocked for ever in join()).
\* condition_.wait(lock, pred) is modelled without spurious wake-ups: a thread
\* that finds pred false blocks until a notify chooses it, then takes the
\* mutex and tests pred again.

\* the channel and the tasks left as constructed
ChanIdle ==
    /\ capacity_ = 0
    /\ closed_ = FALSE
    /\ buffer_ = <<>>
    /\ send_waiters_ = <<>>
    /\ receive_waiters_ = <<>>
    /\ mutex_ = Free
    /\ cfg = [a \in Agents |-> Idle]
    /\ pc = [a \in Agents |-> "done"]
    /\ stack = [a \in Agents |-> <<>>]
    /\ idx = [a \in Agents |-> 0]
    /\ value_ = [a \in Agents |-> None]
    /\ receiver_result_ = [a \in Agents |-> None]
    /\ result_ = [a \in Agents |-> None]
    /\ outcome = [a \in Agents |-> "none"]
    /\ sentOK = [a \in Agents |-> <<>>]
    /\ received = [a \in Agents |-> <<>>]
    /\ call = [a \in Agents |-> NoCall]
    /\ wokenBy = [a \in Agents |-> "none"]
    /\ firstCloser = "none"
    /\ queuedAtClose = {}

\* main gives h1, h2, h3 the priorities 1, 10, 5.
Priority(h) == CASE h = "h1" -> 1 [] h = "h2" -> 10 [] OTHER -> 5

SchedInit ==
    /\ ChanIdle /\ TaskIdle /\ MathIdle
    /\ \E n \in 1..MaxWorkers, k \in Kinds, handles \in {Distinct, Same} :
          Constructed(n, [h \in Coros |-> IF h = "h1" THEN k ELSE "return"], handles)

\* how many start() calls are followed: a scheduler with one worker whose
\* continuations are distinct and all return is also started again after a
\* stop()
StartsAllowed ==
    IF thread_count_ = 1 /\ prog = Distinct /\ \A h \in Coros : hkind[h] = "return"
    THEN MaxStarts + MaxRestarts ELSE MaxStarts

\* start(): under mutex_, returns when running_; else sets the flags and
\* spawns thread_count_ workers.  (A call that finds running_ changes nothing.
\* threads_ is empty at every start() modelled here: after construction or
\* after a stop() that returned.)
SchedStart(c) ==
    /\ c = "main" /\ tpc[c] = "idle" /\ sched_mutex_ = Free
    /\ ~running_ /\ threads_ = {} /\ nStart < StartsAllowed
    /\ running_' = TRUE
    /\ stop_requested_' = FALSE
    /\ threads_' = {WorkerNames[i] : i \in 1..thread_count_}
    /\ tpc' = [t \in Threads |-> IF t \in threads_' THEN "lock" ELSE tpc[t]]
    /\ task' = [w \in Workers |-> NoTask]
    /\ nStart' = nStart + 1
    /\ UNCHANGED <<thread_count_, task_queue_, sched_mutex_, condition_, arg, prog, hkind, hdone,
                   resuming, enq, res, deqCount, firstSeen, nSched, stopSeen, abandoned>>
    /\ UNCHANGED <<cvars, tvars, mvars>>

\* schedule() that puts the handle in the queue whether or not the scheduler
\* runs.
ScheduleQueuesAlways(c, h) ==
    /\ c = "main" /\ tpc[c] = "idle" /\ sched_mutex_ = Free /\ nSched < MaxEntries
    /\ h = prog[nSched + 1]
    /\ nSched' = nSched + 1
    /\ arg' = [arg EXCEPT ![c] = h]
    /\ LET e == [id |-> Len(enq) + 1, handle |-> h, priority |-> Priority(h)] IN
          /\ task_queue_' = task_queue_ \cup {e}
          /\ enq' = Append(enq, e)
          /\ deqCount' = Append(deqCount, 0)
    /\ tpc' = [tpc EXCEPT ![c] = "notify"]
    /\ UNCHANGED <<sched_mutex_, resuming, res>>
    /\ UNCHANGED <<thread_count_, running_, stop_requested_, threads_, condition_, task,
                   prog, hkind, hdone, firstSeen, nStart, stopSeen, abandoned>>
    /\ UNCHANGED <<cvars, tvars, mvars>>

\* schedule(handle, priority), lines 115-126: under mutex_; not running: the
\* handle, if not done, is resumed by the caller with mutex_ held; running:
\* the entry is placed in the queue and the caller goes on to notify_one.
Schedule(c, h) ==
    /\ c = "main" /\ tpc[c] = "idle" /\ sched_mutex_ = Free /\ nSched < MaxEntries
    /\ h = prog[nSched + 1]
    /\ nSched' = nSched + 1
    /\ arg' = [arg EXCEPT ![c] = h]
    /\ IF ~running_
       THEN /\ IF ~hdone[h]
               THEN /\ sched_mutex_' = c
                    /\ tpc' = [tpc EXCEPT ![c] = "inline"]
                    /\ resuming' = [resuming EXCEPT ![h] = @ \cup {c}]
                    /\ res' = Append(res, [id |-> 0, handle |-> h, by |-> c])
               ELSE UNCHANGED <<sched_mutex_, tpc, resuming, res>>
            /\ UNCHANGED <<task_queue_, enq, deqCount>>
       ELSE /\ LET e == [id |-> Len(enq) + 1, handle |-> h, priority |-> Priority(h)] IN
                  /\ task_queue_' = task_queue_ \cup {e}
                  /\ enq' = Append(enq, e)
                  /\ deqCount' = Append(deqCount, 0)
            /\ tpc' = [tpc EXCEPT ![c] = "notify"]
            /\ UNCHANGED <<sched_mutex_, resuming, res>>
    /\ UNCHANGED <<thread_count_, running_, stop_requested_, threads_, condition_, task,
                   prog, hkind, hdone, firstSeen, nStart, stopSeen, abandoned>>
    /\ UNCHANGED <<cvars, tvars, mvars>>

\* where a thread chosen by a notify goes on: it takes mutex_ and tests its
\* predicate again
Woken(t) == IF t \in Workers THEN "lock" ELSE "wfa_lock"

\* condition_.notify_one(), line 129: one of the threads blocked on
\* condition_, whichever it is, is woken; none if none is blocked.
ScheduleNotify(c) ==
    /\ tpc[c] = "notify"
    /\ IF condition_ = {}
       THEN /\ tpc' = [tpc EXCEPT ![c] = "idle"]
            /\ UNCHANGED condition_
       ELSE \E t \in condition_ :
               /\ condition_' = condition_ \ {t}
               /\ tpc' = [tpc EXCEPT ![c] = "idle", ![t] = Woken(t)]
    /\ UNCHANGED <<thread_count_, running_, stop_requested_, task_queue_, threads_,
                   sched_mutex_, task, arg, prog, hkind, hdone, resuming, enq, res, deqCount,
                   firstSeen, nSched, nStart, stopSeen, abandoned>>
    /\ UNCHANGED <<cvars, tvars, mvars>>

\* what one resumption does to the handle: a body that returns or throws ends
\* the coroutine, one that suspends leaves it resumable
DoneAfter(h) == IF hkind[h] = "suspend" THEN hdone[h] ELSE TRUE

\* the inline handle.resume() of line 121 returns (or throws through
\* schedule()); the lock_guard releases mutex_.
InlineReturn(c) ==
    /\ tpc[c] = "inline" /\ hkind[arg[c]] \notin {"stop", "query"}
    /\ hdone' = [hdone EXCEPT ![arg[c]] = DoneAfter(arg[c])]
    /\ resuming' = [resuming EXCEPT ![arg[c]] = @ \ {c}]
    /\ sched_mutex_' = Free
    /\ tpc' = [tpc EXCEPT ![c] = "idle"]
    /\ UNCHANGED <<thread_count_, running_, stop_requested_, task_queue_, threads_,
                   condition_, task, arg, prog, hkind, enq, res, deqCount, firstSeen, nSched,
                   nStart, stopSeen, abandoned>>
    /\ UNCHANGED <<cvars, tvars, mvars>>

\* The continuation that schedule() resumes inline (line 121, inside the
\* lock_guard of line 117) calls is_running() (lines 168-171) on the same
\* scheduler: the thread locks the std::mutex it holds.  That has no defined
\* outcome: the thread blocks for ever, or lock() throws std::system_error,
\* which ends the continuation and unwinds through schedule().
InlineRelock(c) ==
    /\ tpc[c] = "inline" /\ hkind[arg[c]] = "query" /\ sched_mutex_ = c
    /\ \/ /\ tpc' = [tpc EXCEPT ![c] = "hung"]
          /\ UNCHANGED <<hdone, resuming, sched_mutex_>>
       \/ /\ hdone' = [hdone EXCEPT ![arg[c]] = TRUE]
          /\ resuming' = [resuming EXCEPT ![arg[c]] = @ \ {c}]
          /\ sched_mutex_' = Free
          /\ tpc' = [tpc EXCEPT ![c] = "idle"]
    /\ UNCHANGED <<thread_count_, running_, stop_requested_, task_queue_, threads_,
                   condition_, task, arg, prog, hkind, enq, res, deqCount, firstSeen, nSched,
                   nStart, stopSeen, abandoned>>
    /\ UNCHANGED <<cvars, tvars, mvars>>

\* ---- Scheduler::worker_thread ----

\* priority_queue<Task>::top() with operator< of line 38: an entry of the
\* greatest priority (which one among equals is not determined)
Lowest(q)  == {e \in q : \A f \in q : e.priority <= f.priority}
Highest(q) == {e \in q : \A f \in q : f.priority <= e.priority}

\* task_queue_.pop() that leaves the entry in the queue
KeepTop(q, e) == q
\* task_queue_.pop(), line 217
PopTop(q, e)  == q \ {e}

\* lines 205-219: takes mutex_; blocks while the queue is empty and no stop is
\* requested; leaves the loop on stop_requested_; else takes the top entry.
WorkerTake(w) ==
    /\ tpc[w] = "lock" /\ sched_mutex_ = Free
    /\ IF task_queue_ = {} /\ ~stop_requested_
       THEN /\ condition_' = condition_ \cup {w}
            /\ tpc' = [tpc EXCEPT ![w] = "wait"]
            /\ UNCHANGED <<task_queue_, task, deqCount, firstSeen>>
       ELSE IF stop_requested_
       THEN /\ tpc' = [tpc EXCEPT ![w] = "exited"]
            /\ UNCHANGED <<task_queue_, task, deqCount, firstSeen, condition_>>
       ELSE \E e \in Highest(task_queue_) :
               /\ task' = [task EXCEPT ![w] = e]
               /\ task_queue_' = PopTop(task_queue_, e)
               /\ deqCount' = [deqCount EXCEPT ![e.id] = @ + 1]
               /\ firstSeen' = IF firstSeen = 0 THEN Len(enq) ELSE firstSeen
               /\ tpc' = [tpc EXCEPT ![w] = "exec"]
               /\ UNCHANGED condition_
    /\ UNCHANGED <<thread_count_, running_, stop_requested_, threads_, sched_mutex_, arg,
                   prog, hkind, hdone, resuming, enq, res, nSched, nStart, stopSeen, abandoned>>
    /\ UNCHANGED <<cvars, tvars, mvars>>

\* lines 222-226, outside the mutex: if (!task.handle.done()) task.handle.resume()
WorkerExec(w) ==
    /\ tpc[w] = "exec"
    /\ IF hdone[task[w].handle]
       THEN /\ tpc' = [tpc EXCEPT ![w] = "lock"]
            /\ task' = [task EXCEPT ![w] = NoTask]
            /\ UNCHANGED <<resuming, res>>
       ELSE /\ tpc' = [tpc EXCEPT ![w] = "in_resume"]
            /\ resuming' = [resuming EXCEPT ![task[w].handle] = @ \cup {w}]
            /\ res' = Append(res, [id |-> task[w].id, handle |-> task[w].handle, by |-> w])
            /\ UNCHANGED task
    /\ UNCHANGED <<thread_count_, running_, stop_requested_, task_queue_, threads_,
                   sched_mutex_, condition_, arg, prog, hkind, hdone, enq, deqCount, firstSeen,
                   nSched, nStart, stopSeen, abandoned>>
    /\ UNCHANGED <<cvars, tvars, mvars>>

\* a worker without the try block: the exception ends the thread
WorkerDies == "exited"
\* catch (const std::exception&) / catch (...), lines 227-233: the exception
\* is swallowed and the while (true) loop goes on
AfterException == "lock"

\* the continuation leaves the worker: it returned, suspended, or threw
EndResume(w, threw) ==
    /\ hdone' = [hdone EXCEPT ![task[w].handle] = DoneAfter(task[w].handle)]
    /\ resuming' = [resuming EXCEPT ![task[w].handle] = @ \ {w}]
    /\ tpc' = [tpc EXCEPT ![w] = IF threw THEN AfterException ELSE "lock"]
    /\ task' = [task EXCEPT ![w] = NoTask]

\* task.handle.resume() comes back to worker_thread
WorkerResumed(w) ==
    /\ tpc[w] = "in_resume" /\ hkind[task[w].handle] # "stop"
    /\ hkind[task[w].handle] = "query" => sched_mutex_ = Free
    /\ EndResume(w, hkind[task[w].handle] = "throw")
    /\ UNCHANGED <<thread_count_, running_, stop_requested_, task_queue_, threads_,
                   sched_mutex_, condition_, arg, prog, hkind, enq, res, deqCount, firstSeen,
                   nSched, nStart, stopSeen, abandoned>>
    /\ UNCHANGED <<cvars, tvars, mvars>>

\* ---- Scheduler::stop ----

\* the thread is inside a continuation whose body calls stop()
InStopBody(t) ==
    \/ t \in Workers /\ tpc[t] = "in_resume" /\ hkind[task[t].handle] = "stop"
    \/ t \in Clients /\ tpc[t] = "inline" /\ hkind[arg[t]] = "stop"

\* lines 90-95: under mutex_, returns when not running; else sets
\* stop_requested_ and clears running_.  A client calls it between its other
\* calls; a continuation calls it from the thread that resumes it (which
\* blocks here if that thread holds mutex_, as in an inline resumption).
StopEnter(t) ==
    /\ (t \in Clients /\ tpc[t] = "idle") \/ InStopBody(t)
    /\ sched_mutex_ = Free
    /\ IF ~running_
       THEN /\ stopSeen' = [stopSeen EXCEPT ![t] = "early"]
            /\ UNCHANGED abandoned
            /\ IF t \in Workers
               THEN EndResume(t, FALSE)
               ELSE UNCHANGED <<hdone, resuming, tpc, task>>
            /\ UNCHANGED <<running_, stop_requested_>>
       ELSE /\ stop_requested_' = TRUE
            /\ running_' = FALSE
            /\ tpc' = [tpc EXCEPT ![t] = "stop_notify"]
            /\ stopSeen' = [stopSeen EXCEPT ![t] = "none"]
            /\ abandoned' = abandoned \cup {e.id : e \in task_queue_}
            /\ UNCHANGED <<hdone, resuming, task>>
    /\ UNCHANGED <<thread_count_, task_queue_, threads_, sched_mutex_, condition_, arg,
                   prog, hkind, enq, res, deqCount, firstSeen, nSched, nStart>>
    /\ UNCHANGED <<cvars, tvars, mvars>>

\* condition_.notify_all(), line 98
StopNotify(t) ==
    /\ tpc[t] = "stop_notify"
    /\ condition_' = {}
    /\ tpc' = [u \in Threads |-> IF u = t THEN "stop_join"
                                 ELSE IF u \in condition_ THEN Woken(u) ELSE tpc[u]]
    /\ UNCHANGED <<thread_count_, running_, stop_requested_, task_queue_, threads_,
                   sched_mutex_, task, arg, prog, hkind, hdone, resuming, enq, res, deqCount,
                   firstSeen, nSched, nStart, stopSeen, abandoned>>
    /\ UNCHANGED <<cvars, tvars, mvars>>

\* lines 101-107: joins the workers in the order of threads_, then clears
\* threads_.  A worker that reaches its own std::thread in the loop joins
\* itself: join() throws std::system_error where the library detects it and
\* blocks for ever where it does not; the exception leaves stop() and the
\* continuation, threads_ is not cleared.
StopJoin(t) ==
    /\ tpc[t] = "stop_join"
    /\ IF t \in threads_
       THEN /\ \A w \in threads_ : WorkerIndex(w) < WorkerIndex(t) => tpc[w] = "exited"
            /\ \/ /\ stopSeen' = [stopSeen EXCEPT ![t] = "threw"]
                  /\ EndResume(t, TRUE)
               \/ /\ stopSeen' = [stopSeen EXCEPT ![t] = "hung"]
                  /\ tpc' = [tpc EXCEPT ![t] = "hung"]
                  /\ UNCHANGED <<hdone, resuming, task>>
            /\ UNCHANGED threads_
       ELSE /\ \A w \in threads_ : tpc[w] = "exited"
            /\ threads_' = {}
            /\ stopSeen' = [stopSeen EXCEPT ![t] = "returned"]
            /\ tpc' = [tpc EXCEPT ![t] = "idle"]
            /\ UNCHANGED <<hdone, resuming, task>>
    /\ UNCHANGED <<thread_count_, running_, stop_requested_, task_queue_, sched_mutex_,
                   condition_, arg, prog, hkind, enq, res, deqCount, firstSeen, nSched, nStart,
                   abandoned>>
    /\ UNCHANGED <<cvars, tvars, mvars>>

\* ---- Scheduler::wait_for_all ----

\* the predicate of line 180
AllDone == task_queue_ = {} \/ ~running_

\* lines 178-183: takes mutex_ and waits on condition_, the condition
\* variable of the workers, until AllDone.
WaitForAll(c) ==
    /\ c = "aux" /\ tpc[c] \in {"idle", "wfa_lock"} /\ sched_mutex_ = Free
    /\ IF AllDone
       THEN /\ tpc' = [tpc EXCEPT ![c] = "idle"]
            /\ UNCHANGED condition_
       ELSE /\ tpc' = [tpc EXCEPT ![c] = "wfa_wait"]
            /\ condition_' = condition_ \cup {c}
    /\ UNCHANGED <<thread_count_, running_, stop_requested_, task_queue_, threads_,
                   sched_mutex_, task, arg, prog, hkind, hdone, resuming, enq, res, deqCount,
                   firstSeen, nSched, nStart, stopSeen, abandoned>>
    /\ UNCHANGED <<cvars, tvars, mvars>>

SchedNext ==
    \/ \E c \in Clients : SchedStart(c)
    \/ \E c \in Clients, h \in Coros : Schedule(c, h)
    \/ \E c \in Clients : ScheduleNotify(c)
    \/ \E c \in Clients : InlineReturn(c)
    \/ \E c \in Clients : InlineRelock(c)
    \/ \E w \in Workers : WorkerTake(w)
    \/ \E w \in Workers : WorkerExec(w)
    \/ \E w \in Workers : WorkerResumed(w)
    \/ \E t \in Threads : StopEnter(t)
    \/ \E t \in Threads : StopNotify(t)
    \/ \E t \in Threads : StopJoin(t)
    \/ \E c \in Clients : WaitForAll(c)

SchedSpec == SchedInit /\ [][SchedNext]_vars

\* Threads run on: a worker that can take a step takes it, and a call of
\* schedule(), stop() or wait_for_all() that is under way and not blocked goes
\* on.  Nothing obliges a client to make a new call.
SchedFair ==
    /\ \A w \in Workers : /\ WF_vars(WorkerTake(w))
                           /\ WF_vars(WorkerExec(w))
                           /\ WF_vars(WorkerResumed(w))
    /\ \A c \in Clients : /\ WF_vars(ScheduleNotify(c))
                           /\ WF_vars(InlineReturn(c))
                           /\ WF_vars(tpc[c] = "wfa_lock" /\ WaitForAll(c))
    /\ \A t \in Threads : /\ WF_vars(StopNotify(t))
                           /\ WF_vars(StopJoin(t))

SchedFairSpec == SchedSpec /\ SchedFair

SchedTypeOK ==
    /\ thread_count_ \in 1..MaxWorkers
    /\ running_ \in BOOLEAN /\ stop_requested_ \in BOOLEAN
    /\ \A e \in task_queue_ : e.handle \in Coros /\ e.id \in 1..Len(enq)
    /\ threads_ \subseteq Workers
    /\ sched_mutex_ \in Clients \cup {Free}
    /\ condition_ \subseteq Threads
    /\ \A t \in condition_ : tpc[t] \in {"wait", "wfa_wait"}
    /\ \A h \in Coros : resuming[h] \subseteq Threads
    /\ Len(enq) <= MaxEntries /\ Len(deqCount) = Len(enq)
    /\ nSched \in 0..MaxEntries /\ nStart \in 0..StartsAllowed
    /\ abandoned \subseteq 1..Len(enq)

\* ---- what the scheduler's history shows ----
IsPrefix(s, t) == Len(s) <= Len(t) /\ \A i \in 1..Len(s) : s[i] = t[i]

\* the handles passed to the queue, in order
EnqHandles == [i \in 1..Len(enq) |-> enq[i].handle]

\* the resumptions made by workers, in order
RECURSIVE ByWorkers(_)
ByWorkers(r) ==
    IF r = <<>> THEN <<>>
    ELSE IF Head(r).id # 0 THEN <<Head(r).handle>> \o ByWorkers(Tail(r))
    ELSE ByWorkers(Tail(r))

\* how many times entry i was resumed, and by whom
Resumers(i) == {res[k].by : k \in {j \in 1..Len(res) : res[j].id = i}}
Resumes(i)  == Cardinality({j \in 1..Len(res) : res[j].id = i})

Spawned == {WorkerNames[i] : i \in 1..thread_count_}

\* the scenario of C12: one worker, the scheduler running, and exactly the
\* three entries h1 (1), h2 (10), h3 (5) placed in the queue in that order
ThreeEnqueued ==
    /\ thread_count_ = 1
    /\ nSched = 3
    /\ EnqHandles = <<"h1", "h2", "h3">>

\* C12: scheduler priority.  With three continuations enqueued with the
\* priorities 1, 10, 5, in that order, on a running single-worker scheduler,
\* the worker resumes them in the order 10, 5, 1: what it has resumed so far
\* is a beginning of h2, h3, h1.
C12_PriorityOrder ==
    ThreeEnqueued => IsPrefix(ByWorkers(res), <<"h2", "h3", "h1">>)

\* C12 as amended: the order is 10, 5, 1 provided the three entries are all in
\* the queue before the worker takes the first of them.
C12_PriorityOrderWhenQueuedTogether ==
    (ThreeEnqueued /\ firstSeen \in {0, 3}) =>
        IsPrefix(ByWorkers(res), <<"h2", "h3", "h1">>)

\* the worker found all three queued and has resumed all three
C12_Witness ==
    /\ ThreeEnqueued /\ firstSeen = 3
    /\ ByWorkers(res) = <<"h2", "h3", "h1">>

\* C13: stopped-scheduler fallback.  A schedule() call made while the
\* scheduler is not running, for a handle that is not done, resumes the handle
\* inline on the caller's thread and does not put it in the queue (first
\* conjunct); the call returns only when that resumption has ended, with the
\* lock released (second conjunct).  The continuation is never dropped.
C13_InlineWhenStopped ==
    [][ \A c \in Clients :
          /\ (nSched' = nSched + 1 /\ arg'[c] = prog[nSched'] /\ tpc[c] = "idle"
                /\ ~running_ /\ ~hdone[arg'[c]])
             => /\ tpc'[c] = "inline"
                /\ c \in resuming'[arg'[c]]
                /\ res' = Append(res, [id |-> 0, handle |-> arg'[c], by |-> c])
                /\ UNCHANGED <<task_queue_, enq>>
          /\ (tpc[c] = "inline" /\ tpc'[c] = "idle")
             => /\ c \notin resuming'[arg[c]]
                /\ hdone'[arg[c]] = DoneAfter(arg[c])
                /\ sched_mutex_' = Free
                /\ UNCHANGED <<task_queue_, enq>>
      ]_vars

\* main stopped the scheduler, then scheduled a handle, which ran inline, and
\* schedule() has returned; nothing is queued.
C13_Witness ==
    /\ stopSeen["main"] = "returned"
    /\ ~running_
    /\ tpc["main"] = "idle"
    /\ \E k \in 1..Len(res) : res[k].id = 0 /\ res[k].by = "main" /\ hdone[res[k].handle]
    /\ task_queue_ = {}

\* the scheduler was started, is stopped, and every worker has left its loop
AllExited == nStart > 0 /\ ~running_ /\ \A w \in Spawned : tpc[w] = "exited"

C15_NoConcurrentResume ==
    \A h \in Coros : Cardinality(resuming[h]) <= 1

\* C16: stop() is safe from any thread.  Whenever a call of stop() ends, it
\* ends by returning (it neither throws nor blocks in join()), and at that
\* moment running_ is false and every worker has left its loop.
C16_StopSafe ==
    [][ \A t \in Threads :
          (stopSeen'[t] # stopSeen[t] /\ stopSeen'[t] # "none") =>
              /\ stopSeen'[t] \in {"early", "returned"}
              /\ ~running_'
              /\ \A w \in Workers : tpc'[w] \in {"none", "exited"}
      ]_vars

\* C17: no wake-up is lost.  While the scheduler runs, no stop() was called
\* and every continuation returns, an entry never stays in the queue with
\* every worker blocked in condition_.wait and no notify on its way: some
\* worker is awake or about to be woken, whatever other threads call
\* wait_for_all.
C17_NoLostWakeup ==
    (/\ running_ /\ ~stop_requested_
     /\ \A t \in Threads : stopSeen[t] = "none"
     /\ \A h \in Coros : hkind[h] = "return"
     /\ task_queue_ # {})
    => \/ \E w \in Spawned : tpc[w] # "wait"
       \/ \E c \in Clients : tpc[c] = "notify"

\* C18: an exception that escapes a continuation resumed by a worker is caught
\* at the worker boundary.  The worker is back at the top of its loop after
\* it, where it takes the entries scheduled afterwards, and a worker leaves
\* its loop only when a stop was requested.
C18_WorkerSurvivesException ==
    [][ \A w \in Workers :
          /\ (tpc[w] = "in_resume" /\ hkind[task[w].handle] = "throw" /\ tpc'[w] # tpc[w])
             => (tpc'[w] = "lock" /\ w \in threads_')
          /\ (tpc[w] # "exited" /\ tpc'[w] = "exited") => stop_requested_
      ]_vars

\* the only worker resumed h1, which threw, and went on to resume h2, which
\* was scheduled after that
C18_Witness ==
    /\ thread_count_ = 1 /\ hkind["h1"] = "throw"
    /\ Len(res) = 2
    /\ res[1] = [id |-> 1, handle |-> "h1", by |-> "w1"]
    /\ res[2] = [id |-> 2, handle |-> "h2", by |-> "w1"]
    /\ running_

\* C34: the priority invariant at dequeue.  In a step in which a worker takes
\* an entry, the entry was in the queue, no entry that was in the queue with
\* it has a strictly higher priority, and it is the only entry that leaves the
\* queue.
C34_DequeuesHighest ==
    [][ \A w \in Workers :
          (task'[w] # task[w] /\ task'[w] # NoTask)
             => /\ task'[w] \in task_queue_
                /\ \A f \in task_queue_ : f.priority <= task'[w].priority
                /\ task_queue_' = task_queue_ \ {task'[w]}
      ]_vars

\* a worker holds the entry of priority 10 that it took while entries of lower
\* priority stayed queued
C34_Witness ==
    \E w \in Workers :
        /\ tpc[w] = "exec" /\ task[w].priority = 10
        /\ \E f \in task_queue_ : f.priority < 10
        /\ Cardinality(task_queue_) = 2

\* C31: wait_for_all() waits for the queue to be empty.  A thread leaves
\* wait_for_all() only when the queue is empty or the scheduler is not
\* running, and a thread that is blocked in it when that is the case
\* eventually returns.
C31_WaitForAllReturns ==
    /\ [][ \A c \in Clients :
             (tpc[c] = "wfa_lock" /\ tpc'[c] = "idle") => AllDone ]_vars
    /\ \A c \in Clients :
          (tpc[c] = "wfa_wait" /\ AllDone) ~> (tpc[c] # "wfa_wait")

\* C32: undrained entries are abandoned at stop.  An entry that was in the
\* queue when a stop() took effect is never taken from it or resumed
\* afterwards, by an exiting worker or after a later start(); and while the
\* scheduler is stopped after a stop() that returned, no worker is resuming or
\* about to resume anything.
C32_AbandonedAtStop ==
    /\ \A i \in abandoned : deqCount[i] = 0 /\ Resumes(i) = 0
    /\ (~running_ /\ threads_ = {} /\ \E t \in Threads : stopSeen[t] = "returned")
          => \A w \in Workers : tpc[w] \notin {"exec", "in_resume"}

\* C40: the inline fallback never self-deadlocks.  A thread that is inside a
\* continuation resumed inline by schedule(), where the continuation calls
\* is_running() on the same scheduler, does not hold the scheduler's mutex (so
\* the call can take it and return).
C40_InlineNoSelfDeadlock ==
    \A c \in Clients :
        (tpc[c] = "inline" /\ hkind[arg[c]] = "query") => sched_mutex_ # c

\* ======================================================================
\* Task<T> (include/coroutine/task.h)
\* ======================================================================
\* One thread.  The owner creates the tasks and calls Task::done() and
\* Task::resume(); control
\* is with the owner (active = "none") or with the coroutine that executes.
\* A coroutine is "none" (not created), "created" (suspended at its initial
\* suspend point), "running", "suspended" (at a suspension point of its body)
\* or "done" (at its final suspend point).

TaskInit ==
    /\ ChanIdle /\ SchedIdle /\ MathIdle
    /\ \E n \in 1..MaxParts, e \in {"return", "throw"}, v \in 1..MaxVal,
          awaiting \in SUBSET Awaiters :
          NoTasks([t \in Tasks |->
                     IF t = "inner" THEN [parts |-> n, ends |-> e, val |-> v]
                     ELSE IF t \in awaiting THEN [parts |-> 1, ends |-> "return", val |-> 0]
                     ELSE NoBody])

\* an initial_suspend() that returns std::suspend_never
SuspendNever == FALSE
\* initial_suspend() returns std::suspend_always (line 49): the coroutine is
\* suspended before its body
InitialSuspend == TRUE

\* the coroutine function is called: the frame is made, get_return_object()
\* gives the Task, and co_await initial_suspend() is evaluated.
TaskCreate(t) ==
    /\ active = "none" /\ tstate[t] = "none" /\ tbody[t] # NoBody
    /\ t \in Awaiters => tstate["inner"] # "none"
    /\ IF InitialSuspend
       THEN /\ tstate' = [tstate EXCEPT ![t] = "created"]
            /\ UNCHANGED active
       ELSE /\ tstate' = [tstate EXCEPT ![t] = "running"]
            /\ active' = t
    /\ UNCHANGED <<tsteps, task_result_, continuation_, tbody, escaped, got, said>>
    /\ UNCHANGED <<cvars, svars, stask, mvars>>

\* a done() that is true as soon as the body has started
DoneWhenStarted(t) == tstate[t] \notin {"none", "created"}
\* handle_.done(): the coroutine is suspended at its final suspend point
DoneValue(t) == tstate[t] = "done"

\* Task::done(), lines 205-207, called by the owner
TaskDone(t) ==
    /\ active = "none" /\ tstate[t] # "none"
    /\ said' = [op |-> "done", task |-> t, ans |-> DoneValue(t)]
    /\ UNCHANGED <<tstate, active, tsteps, task_result_, continuation_, tbody, escaped, got>>
    /\ UNCHANGED <<cvars, svars, stask, mvars>>

\* a resume() without the test of done()
ResumesAlways(t) == TRUE
\* the test of Task::resume(): handle_ && !handle_.done()
ResumeResumes(t) == ~DoneValue(t)

\* Task::resume(), lines 212-216, called by the owner: resumes the handle
\* unless it is done.  (The owner does not resume a coroutine that waits in
\* co_await for another task.)
TaskResume(t) ==
    /\ active = "none"
    /\ tstate[t] \in {"created", "suspended", "done"}
    /\ t \in Awaiters => tstate[t] # "suspended"
    /\ said' = [op |-> "resume", task |-> t, ans |-> ResumeResumes(t)]
    /\ IF ResumeResumes(t)
       THEN /\ tstate' = [tstate EXCEPT ![t] = "running"]
            /\ active' = t
       ELSE UNCHANGED <<tstate, active>>
    /\ UNCHANGED <<tsteps, task_result_, continuation_, tbody, escaped, got>>
    /\ UNCHANGED <<cvars, svars, stask, mvars>>

\* an unhandled_exception() that lets the exception go on to the resumer
Rethrows(e) == [result |-> Empty, escapes |-> TRUE]
\* unhandled_exception(), lines 101-103: result_ = std::current_exception()
UnhandledException(e) == [result |-> [kind |-> "exception", val |-> e], escapes |-> FALSE]

\* return_value(value), lines 85-94
ReturnValue(v) == [kind |-> "value", val |-> v]

\* get_result(), lines 110-115: rethrows a stored exception, else gives the
\* stored value (std::get throws when there is none)
GetResult(t) ==
    CASE task_result_[t].kind = "exception" -> [kind |-> "raised", val |-> task_result_[t].val]
      [] task_result_[t].kind = "value"     -> [kind |-> "value", val |-> task_result_[t].val]
      [] OTHER                              -> [kind |-> "bad_variant_access", val |-> 0]

\* FinalAwaiter::await_suspend, lines 63-68: control goes to the continuation
\* if there is one, else back to whoever resumed the coroutine
FinalTarget(t) == continuation_[t]

\* The body of inner runs its next part: it suspends if more parts follow,
\* else it ends by co_return or by an exception, and reaches final_suspend().
BodyStep(t) ==
    /\ t = "inner" /\ active = t
    /\ tsteps' = [tsteps EXCEPT ![t] = @ + 1]
    /\ IF tsteps[t] + 1 < tbody[t].parts
       THEN /\ tstate' = [tstate EXCEPT ![t] = "suspended"]
            /\ active' = "none"
            /\ UNCHANGED <<task_result_, escaped>>
       ELSE /\ IF tbody[t].ends = "return"
               THEN /\ task_result_' = [task_result_ EXCEPT ![t] = ReturnValue(tbody[t].val)]
                    /\ UNCHANGED escaped
               ELSE /\ task_result_' = [task_result_ EXCEPT
                                          ![t] = UnhandledException(tbody[t].val).result]
                    /\ escaped' = [escaped EXCEPT ![t] = UnhandledException(tbody[t].val).escapes]
            /\ active' = FinalTarget(t)
            /\ tstate' = [u \in Tasks |-> IF u = t THEN "done"
                                          ELSE IF u = FinalTarget(t) THEN "running"
                                          ELSE tstate[u]]
    /\ UNCHANGED <<continuation_, tbody, got, said>>
    /\ UNCHANGED <<cvars, svars, stask, mvars>>

\* the awaiting coroutine has the outcome of its co_await: it returns the
\* value, or the re-raised exception leaves its body and is stored by its own
\* unhandled_exception(); then final_suspend() with no continuation.
AfterAwait(t, r) ==
    /\ got' = r
    /\ IF r.kind = "value"
       THEN /\ task_result_' = [task_result_ EXCEPT ![t] = ReturnValue(r.val)]
            /\ UNCHANGED escaped
       ELSE /\ task_result_' = [task_result_ EXCEPT ![t] = UnhandledException(r.val).result]
            /\ escaped' = [escaped EXCEPT ![t] = UnhandledException(r.val).escapes]

\* An awaiter's body reaches co_await inner.  TaskAwaiter::await_ready (131-133)
\* is inner.done(): if true, await_resume (152-154) runs at once; else
\* await_suspend (142-145) records the awaiter as the continuation and resumes
\* inner.
Await(t) ==
    /\ t \in Awaiters /\ active = t /\ tsteps[t] = 0
    /\ tsteps' = [tsteps EXCEPT ![t] = 1]
    /\ IF tstate["inner"] = "done"
       THEN /\ AfterAwait(t, GetResult("inner"))
            /\ tstate' = [tstate EXCEPT ![t] = "done"]
            /\ active' = FinalTarget(t)
            /\ UNCHANGED continuation_
       ELSE /\ continuation_' = [continuation_ EXCEPT !["inner"] = t]
            /\ tstate' = [tstate EXCEPT ![t] = "suspended", !["inner"] = "running"]
            /\ active' = "inner"
            /\ UNCHANGED <<task_result_, escaped, got>>
    /\ UNCHANGED <<tbody, said>>
    /\ UNCHANGED <<cvars, svars, stask, mvars>>

\* The awaiter is resumed at its await point by inner's final_suspend:
\* await_resume() returns coro_.promise().get_result().
AwaitResume(t) ==
    /\ t \in Awaiters /\ active = t /\ tsteps[t] = 1
    /\ AfterAwait(t, GetResult("inner"))
    /\ tstate' = [tstate EXCEPT ![t] = "done"]
    /\ active' = FinalTarget(t)
    /\ UNCHANGED <<tsteps, continuation_, tbody, said>>
    /\ UNCHANGED <<cvars, svars, stask, mvars>>

TaskNext ==
    \/ \E t \in Tasks : TaskCreate(t)
    \/ \E t \in Tasks : TaskDone(t)
    \/ \E t \in Tasks : TaskResume(t)
    \/ \E t \in Tasks : BodyStep(t)
    \/ \E t \in Tasks : Await(t)
    \/ \E t \in Tasks : AwaitResume(t)

TaskSpec == TaskInit /\ [][TaskNext]_vars

TaskTypeOK ==
    /\ \A t \in Tasks : tstate[t] \in {"none", "created", "running", "suspended", "done"}
    /\ active \in Tasks \cup {"none"}
    /\ \A t \in Tasks : (tstate[t] = "running") <=> (active = t)
    /\ \A t \in Tasks : tsteps[t] \in 0..MaxParts
    /\ \A t \in Tasks : task_result_[t].kind \in {"monostate", "value", "exception"}
    /\ got.kind \in {"monostate", "value", "raised"}
    /\ said.op \in {"none", "done", "resume"}
    /\ said.task \in Tasks \cup {"none"}

\* C19: laziness.  Creating a task runs no part of its body: the new
\* coroutine is suspended with no step taken and control stays with the
\* creator.  A coroutine that has taken no step starts to run only in a step
\* where the owner resumes it or where another coroutine awaits it (and is
\* recorded as its continuation), and a step of the body is only ever taken by
\* the coroutine that executes.
C19_Lazy ==
    [][ \A t \in Tasks :
          /\ (tstate[t] = "none" /\ tstate'[t] # "none")
             => (tstate'[t] = "created" /\ tsteps'[t] = 0 /\ active' = active)
          /\ (tsteps[t] = 0 /\ tstate[t] # "running" /\ tstate'[t] = "running")
             => /\ tstate[t] = "created"
                /\ \/ active = "none" /\ active' = t
                   \/ active \in Tasks \ {t} /\ continuation_'[t] = active
          /\ (tsteps'[t] # tsteps[t]) => (active = t /\ tstate[t] = "running")
      ]_vars

\* inner was created and never resumed by its owner; outer awaited it, and
\* only then did its body take its first step
C19_Witness ==
    /\ continuation_["inner"] = "outer"
    /\ tsteps["inner"] = 1
    /\ tstate["inner"] = "suspended"
    /\ tstate["outer"] = "suspended"

\* C20: error propagation.  A failure raised in a task's body is stored in the
\* task's result slot: the task is done, its slot holds the exception and
\* nothing went on to whoever resumed it; a body that returned has its value
\* there.  The coroutine that awaits the task gets that value if the task
\* completed, and has the stored exception raised at its await point if it
\* failed.
C20_ErrorPropagation ==
    /\ \A t \in Tasks : ~escaped[t]
    /\ tstate["inner"] = "done" =>
          task_result_["inner"] =
              [kind |-> IF tbody["inner"].ends = "throw" THEN "exception" ELSE "value",
               val  |-> tbody["inner"].val]
    /\ got # Empty =>
          /\ tstate["inner"] = "done"
          /\ got = [kind |-> IF tbody["inner"].ends = "throw" THEN "raised" ELSE "value",
                    val  |-> tbody["inner"].val]
    /\ tstate["outer"] = "done" => got # Empty

\* inner failed in the second part of its body while outer awaited it: the
\* exception is in inner's slot and was raised in outer at its co_await
C20_Witness ==
    /\ tbody["inner"].ends = "throw" /\ tsteps["inner"] = 2
    /\ tstate["inner"] = "done" /\ task_result_["inner"].kind = "exception"
    /\ continuation_["inner"] = "outer"
    /\ got.kind = "raised" /\ got.val = tbody["inner"].val
    /\ tstate["outer"] = "done"

\* C21: a task's continuation is set at most once.  A step never replaces a
\* continuation that is already recorded in a task, and an awaiter that was
\* recorded as the continuation of a task that is now done has been resumed
\* (it is not left suspended at its co_await).
C21_ContinuationSetOnce ==
    [][ \A t \in Tasks :
          /\ continuation_[t] # "none" => continuation_'[t] = continuation_[t]
          /\ \A a \in Awaiters :
                (tstate'[a] = "suspended" /\ tstate'[t] = "done")
                   => continuation_'[t] = a
      ]_vars

\* the terminal states of a task: its result slot holds a value (Completed)
\* or an exception (Failed)
Terminal(t) == task_result_[t].kind \in {"value", "exception"}

\* the task state that done() and a resume() of a done task must leave alone
TaskState == <<tstate, active, tsteps, task_result_, continuation_, tbody, escaped, got>>

\* C23: done() is true exactly in the terminal states.  In every state the
\* value of handle_.done() is true iff the result slot holds a value or an
\* exception; a call of done() answers that and changes no state of any task.
C23_DoneIffTerminal ==
    [][ /\ \A t \in Tasks : DoneValue(t)' <=> Terminal(t)'
        /\ (said' # said /\ said'.op = "done")
              => /\ said'.ans = Terminal(said'.task)
                 /\ tstate[said'.task] \in {"created", "suspended"} => ~said'.ans
                 /\ TaskState' = TaskState
      ]_vars

\* done() was asked of a failed task and of a task suspended in its body
C23_Witness ==
    \/ /\ said = [op |-> "done", task |-> "inner", ans |-> TRUE]
       /\ task_result_["inner"].kind = "exception"
       /\ tstate["outer"] = "done"
    \/ /\ said = [op |-> "done", task |-> "inner", ans |-> FALSE]
       /\ tstate["inner"] = "suspended" /\ tsteps["inner"] = 1

\* C24: resume() of a done task is a no-op: nothing of the task state
\* changes.  resume() of a task that is not done makes it the running
\* coroutine without taking a step itself, and the body so resumed takes
\* exactly one step and then is suspended or done, no longer running.
C24_ResumeStep ==
    [][ \A t \in Tasks :
          /\ (said' # said /\ said'.op = "resume" /\ said'.task = t)
                => IF tstate[t] = "done"
                   THEN ~said'.ans /\ TaskState' = TaskState
                   ELSE /\ said'.ans
                        /\ tstate'[t] = "running" /\ active' = t
                        /\ UNCHANGED <<tsteps, task_result_, continuation_>>
          /\ (t = "inner" /\ active = t /\ tstate'[t] # tstate[t])
                => /\ tsteps'[t] = tsteps[t] + 1
                   /\ tsteps'[t] <= tbody[t].parts
                   /\ tstate'[t] \in {"suspended", "done"}
                   /\ active' # t
      ]_vars

\* resume() was called on inner after its two-part body had returned: the
\* step count and the result are those of the completed body
C24_Witness ==
    /\ said = [op |-> "resume", task |-> "inner", ans |-> FALSE]
    /\ tstate["inner"] = "done" /\ tbody["inner"].parts = 2
    /\ tsteps["inner"] = 2
    /\ task_result_["inner"] = [kind |-> "value", val |-> tbody["inner"].val]

\* ---------------------------------------------------------------------------
\* ScheduledTask<int> (scheduler.h, lines 252-404) on a Scheduler.
\*
\* "inner" is a ScheduledTask<int> whose body returns or throws val; "outer"
\* is a coroutine of the owner whose body is co_await inner.  Two threads: the
\* owner's thread, which runs the owner's code or the coroutine active, and a
\* worker of the pool, which runs the coroutine working, one dequeued entry at
\* a time.  The two threads go on side by side.
\* ---------------------------------------------------------------------------
MaxPrio == 2       \* start() and set_scheduler() are given a priority in 0..MaxPrio

TaskThreads == {"owner", "worker"}

\* the coroutine that thread th executes
On(th) == IF th = "owner" THEN active ELSE working
\* thread th goes on with coroutine c ("none": it leaves the coroutine)
Runs(th, c) ==
    IF th = "owner" THEN active' = c /\ UNCHANGED working
                    ELSE working' = c /\ UNCHANGED active

\* the members of the Scheduler that the task operations do not touch
SchedRest == <<thread_count_, stop_requested_, threads_, sched_mutex_, condition_, tpc, task,
               arg, prog, hkind, hdone, resuming, res, deqCount, firstSeen, nSched, nStart,
               stopSeen, abandoned>>

\* the default argument of schedule(handle, priority = 0), line 115
DefaultPriority == 0

STaskInit ==
    /\ ChanIdle /\ SchedIdle /\ MathIdle
    /\ \E e \in {"return", "throw"}, v \in 1..MaxVal, awaited \in BOOLEAN :
          NoTasks([t \in Tasks |->
                     IF t = "inner" THEN [parts |-> 1, ends |-> e, val |-> v]
                     ELSE IF t = "outer" /\ awaited
                     THEN [parts |-> 1, ends |-> "return", val |-> 0]
                     ELSE NoBody])

\* Scheduler::start(), lines 68-82, seen from the tasks: running_ is set and
\* the pool takes entries from now on
SchedulerStarts ==
    /\ ~running_ /\ active = "none"
    /\ running_' = TRUE
    /\ threads_' = {WorkerNames[i] : i \in 1..thread_count_}
    /\ UNCHANGED <<thread_count_, stop_requested_, task_queue_, sched_mutex_, condition_, tpc,
                   task, arg, prog, hkind, hdone, resuming, enq, res, deqCount, firstSeen,
                   nSched, nStart, stopSeen, abandoned>>
    /\ UNCHANGED <<cvars, tvars, mvars>>

\* the coroutine function is called: get_return_object() and
\* std::suspend_always initial_suspend(), lines 264-268
ScheduledCreate(t) ==
    /\ active = "none" /\ tstate[t] = "none" /\ tbody[t] # NoBody
    /\ t = "outer" => tstate["inner"] \in {"created", "running", "done"}
    /\ tstate' = [tstate EXCEPT ![t] = "created"]
    /\ UNCHANGED <<active, tsteps, task_result_, continuation_, tbody, escaped, got, said, stask>>
    /\ UNCHANGED <<cvars, svars, mvars>>

\* task_queue_.emplace(handle, priority), line 126
Emplace(h, p) ==
    LET e == [id |-> Len(enq) + 1, handle |-> h, priority |-> p] IN
       /\ task_queue_' = task_queue_ \cup {e}
       /\ enq' = Append(enq, e)

\* ScheduledTask::set_scheduler(scheduler, priority), lines 384-388 and 320-323
SetScheduler(t, p) ==
    /\ t = "inner" /\ active = "none"
    /\ tstate[t] = "created" /\ ~scheduler_[t]
    /\ scheduler_' = [scheduler_ EXCEPT ![t] = TRUE]
    /\ priority_' = [priority_ EXCEPT ![t] = p]
    /\ UNCHANGED <<tstate, active, tsteps, task_result_, continuation_, tbody, escaped, got, said,
                   working, stale>>
    /\ UNCHANGED <<cvars, svars, mvars>>

\* ScheduledTask::start(scheduler, priority), lines 393-400.  With a
\* scheduler: set_scheduler, then schedule(handle_, priority), which queues
\* the handle if the scheduler runs and else resumes it in the caller (lines
\* 118-126); without one: handle_.resume().
ScheduledStart(t, attach, p) ==
    /\ t = "inner" /\ active = "none"
    /\ tstate[t] = "created" /\ ~scheduler_[t]
    /\ IF attach
       THEN /\ scheduler_' = [scheduler_ EXCEPT ![t] = TRUE]
            /\ priority_' = [priority_ EXCEPT ![t] = p]
       ELSE /\ p = DefaultPriority
            /\ UNCHANGED <<scheduler_, priority_>>
    /\ IF attach /\ running_
       THEN /\ Emplace(t, p)
            /\ UNCHANGED <<tstate, active>>
       ELSE /\ tstate' = [tstate EXCEPT ![t] = "running"]
            /\ active' = t
            /\ UNCHANGED <<task_queue_, enq>>
    /\ UNCHANGED <<tsteps, task_result_, continuation_, tbody, escaped, got, said, working, stale>>
    /\ UNCHANGED <<running_, SchedRest>>
    /\ UNCHANGED <<cvars, mvars>>

\* the owner resumes its awaiting coroutine, which then runs in the owner's
\* thread
AwaiterStarts(a) ==
    /\ a = "outer" /\ active = "none"
    /\ tstate[a] = "created"
    /\ tstate' = [tstate EXCEPT ![a] = "running"]
    /\ active' = a
    /\ UNCHANGED <<tsteps, task_result_, continuation_, tbody, escaped, got, said, stask>>
    /\ UNCHANGED <<cvars, svars, mvars>>

\* FinalAwaiter::await_suspend, lines 280-290: scheduler->schedule(continuation)
FinalPriority(t) == DefaultPriority

\* final_suspend() of a ScheduledTask that ran on thread th, lines 273-296:
\* with a continuation and a running scheduler the continuation is queued and
\* the thread gets noop_coroutine; with a continuation and no running
\* scheduler the thread goes on in the continuation; without one the thread
\* is free.
ScheduledFinal(t, th) ==
    IF continuation_[t] # "none" /\ scheduler_[t] /\ running_
    THEN /\ Emplace(continuation_[t], FinalPriority(t))
         /\ Runs(th, "none")
         /\ tstate' = [tstate EXCEPT ![t] = "done"]
    ELSE /\ Runs(th, continuation_[t])
         /\ tstate' = [u \in Tasks |-> IF u = t THEN "done"
                                       ELSE IF u = continuation_[t] THEN "running"
                                       ELSE tstate[u]]
         /\ UNCHANGED <<task_queue_, enq>>

\* the body of inner runs on thread th: return_value or unhandled_exception
\* (lines 298-308) fills result_, then final_suspend
ScheduledBody(t, th) ==
    /\ t = "inner" /\ On(th) = t /\ tstate[t] = "running"
    /\ tsteps' = [tsteps EXCEPT ![t] = @ + 1]
    /\ task_result_' = [task_result_ EXCEPT
                          ![t] = IF tbody[t].ends = "return" THEN ReturnValue(tbody[t].val)
                                 ELSE UnhandledException(tbody[t].val).result]
    /\ ScheduledFinal(t, th)
    /\ UNCHANGED <<continuation_, tbody, escaped, got, said, scheduler_, priority_, stale>>
    /\ UNCHANGED <<running_, SchedRest>>
    /\ UNCHANGED <<cvars, mvars>>

\* outer reaches co_await inner: TaskAwaiter::await_ready, lines 332-334, is
\* coro_.done().  True: await_resume runs at once.  False: await_suspend is
\* next.
ScheduledAwaitReady(a) ==
    /\ a = "outer" /\ active = a /\ tsteps[a] = 0 /\ tstate["inner"] # "destroyed"
    /\ IF tstate["inner"] = "done"
       THEN /\ AfterAwait(a, GetResult("inner"))
            /\ tsteps' = [tsteps EXCEPT ![a] = 2]
            /\ tstate' = [tstate EXCEPT ![a] = "done"]
            /\ active' = "none"
       ELSE /\ tsteps' = [tsteps EXCEPT ![a] = 1]
            /\ UNCHANGED <<tstate, active, task_result_, escaped, got>>
    /\ UNCHANGED <<continuation_, tbody, said, stask>>
    /\ UNCHANGED <<cvars, svars, mvars>>

\* TaskAwaiter::await_suspend, lines 336-345: records the continuation, then
\* queues inner with its priority_ if it has a running scheduler, else calls
\* coro_.resume() (which has no defined outcome unless inner is suspended).
ScheduledAwaitSuspend(a) ==
    /\ a = "outer" /\ active = a /\ tsteps[a] = 1 /\ tstate["inner"] # "destroyed"
    /\ tsteps' = [tsteps EXCEPT ![a] = 2]
    /\ continuation_' = [continuation_ EXCEPT !["inner"] = a]
    /\ IF scheduler_["inner"] /\ running_
       THEN /\ Emplace("inner", priority_["inner"])
            /\ tstate' = [tstate EXCEPT ![a] = "suspended"]
            /\ active' = "none"
       ELSE /\ IF tstate["inner"] = "created"
               THEN /\ tstate' = [tstate EXCEPT ![a] = "suspended", !["inner"] = "running"]
                    /\ active' = "inner"
               ELSE /\ tstate' = [tstate EXCEPT ![a] = "suspended"]
                    /\ active' = "wild"
            /\ UNCHANGED <<task_queue_, enq>>
    /\ UNCHANGED <<task_result_, escaped, got, tbody, said, stask>>
    /\ UNCHANGED <<running_, SchedRest>>
    /\ UNCHANGED <<cvars, mvars>>

\* outer is resumed at its await point on thread th: await_resume() returns
\* coro_.promise().get_result() (lines 347-349).  If inner was destroyed in
\* between, the promise it reads is gone.
ScheduledAwaitResume(a, th) ==
    /\ a = "outer" /\ On(th) = a /\ tsteps[a] = 2 /\ tstate[a] = "running"
    /\ IF tstate["inner"] = "destroyed"
       THEN /\ stale' = stale \cup {"inner"}
            /\ Runs(th, "wild")
            /\ UNCHANGED <<tstate, task_result_, escaped, got>>
       ELSE /\ AfterAwait(a, GetResult("inner"))
            /\ tstate' = [tstate EXCEPT ![a] = "done"]
            /\ Runs(th, "none")
            /\ UNCHANGED stale
    /\ UNCHANGED <<tsteps, continuation_, tbody, said, scheduler_, priority_>>
    /\ UNCHANGED <<cvars, svars, mvars>>

\* worker_thread, lines 205-226: the worker takes the top entry and, if
\* (!task.handle.done()), calls task.handle.resume().  On the handle of a
\* destroyed frame done() reads freed memory: the entry is either passed over
\* or resumed.
WorkerRuns ==
    /\ running_ /\ working = "none" /\ task_queue_ # {}
    /\ \E e \in Highest(task_queue_) :
          /\ task_queue_' = PopTop(task_queue_, e)
          /\ CASE tstate[e.handle] = "destroyed" ->
                    \/ UNCHANGED <<tstate, working, stale>>
                    \/ /\ stale' = stale \cup {e.handle}
                       /\ working' = "wild"
                       /\ UNCHANGED tstate
               [] tstate[e.handle] = "done" ->
                    UNCHANGED <<tstate, working, stale>>
               [] tstate[e.handle] = "running" ->
                    /\ working' = "wild"
                    /\ UNCHANGED <<tstate, stale>>
               [] OTHER ->
                    /\ tstate' = [tstate EXCEPT ![e.handle] = "running"]
                    /\ working' = e.handle
                    /\ UNCHANGED stale
    /\ UNCHANGED <<active, tsteps, task_result_, continuation_, tbody, escaped, got, said,
                   scheduler_, priority_>>
    /\ UNCHANGED <<running_, enq, SchedRest>>
    /\ UNCHANGED <<cvars, mvars>>

\* ~ScheduledTask(), lines 355-359: if (handle_) handle_.destroy(), whatever
\* refers to the handle.  The owner lets inner go out of scope; a worker that
\* is executing the coroutine goes on in a freed frame.
ScheduledDestroy(t) ==
    /\ t = "inner" /\ active = "none"
    /\ tstate[t] \notin {"none", "destroyed"}
    /\ tstate' = [tstate EXCEPT ![t] = "destroyed"]
    /\ IF working = t
       THEN /\ working' = "wild"
            /\ stale' = stale \cup {t}
       ELSE UNCHANGED <<working, stale>>
    /\ UNCHANGED <<active, tsteps, task_result_, continuation_, tbody, escaped, got, said,
                   scheduler_, priority_>>
    /\ UNCHANGED <<cvars, svars, mvars>>

STaskNext ==
    \/ SchedulerStarts
    \/ \E t \in Tasks : ScheduledCreate(t)
    \/ \E t \in Tasks, p \in 0..MaxPrio : SetScheduler(t, p)
    \/ \E t \in Tasks, attach \in BOOLEAN, p \in 0..MaxPrio : ScheduledStart(t, attach, p)
    \/ \E a \in Tasks : AwaiterStarts(a)
    \/ \E t \in Tasks, th \in TaskThreads : ScheduledBody(t, th)
    \/ \E a \in Tasks : ScheduledAwaitReady(a)
    \/ \E a \in Tasks : ScheduledAwaitSuspend(a)
    \/ \E a \in Tasks, th \in TaskThreads : ScheduledAwaitResume(a, th)
    \/ WorkerRuns
    \/ \E t \in Tasks : ScheduledDestroy(t)

STaskSpec == STaskInit /\ [][STaskNext]_vars

\* The threads run on: the worker takes the entries of a running scheduler,
\* and a coroutine that a thread executes takes its next step.  Nothing
\* obliges the owner to make a call.
STaskFair ==
    /\ WF_vars(WorkerRuns)
    /\ \A t \in Tasks, th \in TaskThreads : WF_vars(ScheduledBody(t, th))
    /\ \A a \in Tasks : WF_vars(ScheduledAwaitSuspend(a))
    /\ \A a \in Tasks, th \in TaskThreads : WF_vars(ScheduledAwaitResume(a, th))

STaskFairSpec == STaskSpec /\ STaskFair

STaskTypeOK ==
    /\ \A t \in Tasks : tstate[t] \in {"none", "created", "running", "suspended", "done",
                                       "destroyed"}
    /\ active \in Tasks \cup {"none", "wild"}
    /\ working \in Tasks \cup {"none", "wild"}
    /\ \A t \in Tasks : priority_[t] \in 0..MaxPrio
    /\ \A e \in task_queue_ : e.handle \in Tasks /\ e.priority \in 0..MaxPrio
    /\ stale \subseteq Tasks

\* C22: where the continuation of a completing task goes.  In the step in
\* which a task with a continuation completes: if a running scheduler is
\* attached to the task, the continuation is not resumed in that step but a new
\* entry for it, with the task's priority, is put in the ready queue; if none
\* is attached, the continuation is resumed directly and the queue is left
\* alone.
C22_ContinuationPriority ==
    [][ \A t \in Tasks :
          (tstate[t] = "running" /\ tstate'[t] = "done" /\ continuation_[t] # "none")
             => IF scheduler_[t] /\ running_
                THEN /\ tstate'[continuation_[t]] = "suspended"
                     /\ \E e \in task_queue_' \ task_queue_ :
                           e.handle = continuation_[t] /\ e.priority = priority_[t]
                ELSE /\ tstate'[continuation_[t]] = "running"
                     /\ task_queue_' = task_queue_
      ]_vars

\* C25: destruction before completion.  No thread resumes, or is still
\* executing, a coroutine whose handle has been destroyed.
C25_NoResumeAfterDestroy == stale = {}

\* C35: a computation that awaits a ScheduledTask is resumed with its result.
\* Once the task is done with the awaiter suspended at its co_await, the
\* awaiter eventually goes on (unless the owner destroys the task meanwhile),
\* and an awaiter that has gone on has got the value the body returned, or the
\* exception it threw.
C35_AwaiterResumed ==
    /\ [](tstate["outer"] = "done" =>
             got = [kind |-> IF tbody["inner"].ends = "throw" THEN "raised" ELSE "value",
                    val  |-> tbody["inner"].val])
    /\ (tstate["inner"] = "done" /\ tstate["outer"] = "suspended")
          ~> (tstate["outer"] = "done" \/ tstate["inner"] = "destroyed")

\* ---------------------------------------------------------------------------
\* math_utils: double divide(int a, int b) (math_utils.cpp, lines 62-70).
\*
\* The double that divide returns is kept as the fraction it stands for, in
\* lowest terms with a positive denominator; a division by zero that is let
\* through gives an infinity or a NaN, kept as a fraction with denominator 0.
\* ---------------------------------------------------------------------------
MaxArg == 6        \* divide is called with a and b in -MaxArg..MaxArg

Abs(n) == IF n < 0 THEN 0 - n ELSE n
Sign(n) == IF n < 0 THEN 0 - 1 ELSE IF n > 0 THEN 1 ELSE 0

RECURSIVE Gcd(_, _)
Gcd(m, n) == IF n = 0 THEN m ELSE Gcd(n, m % n)

\* static_cast<double>(a) / b, line 69: for b = 0 the IEEE quotient
Quotient(a, b) ==
    IF b = 0
    THEN [kind |-> "value", num |-> Sign(a), den |-> 0]
    ELSE LET g == Gcd(Abs(a), Abs(b)) IN
            [kind |-> "value", num |-> Sign(b) * Sign(a) * (Abs(a) \div g),
             den |-> Abs(b) \div g]

\* std::invalid_argument, thrown at line 66
InvalidArgument == [kind |-> "invalid_argument", num |-> 0, den |-> 0]

\* divide without the test of line 64
DivideUnchecked(a, b) == Quotient(a, b)

\* double divide(int a, int b), lines 62-70
divide(a, b) ==
    IF b = 0 THEN InvalidArgument
    ELSE Quotient(a, b)

MathInit ==
    /\ ChanIdle /\ SchedIdle /\ TaskIdle
    /\ div_a \in (0 - MaxArg)..MaxArg
    /\ div_b \in (0 - MaxArg)..MaxArg
    /\ div_result = NotCalled

\* the caller calls divide(a, b) and keeps what comes of it
CallDivide ==
    /\ div_result = NotCalled
    /\ div_result' = divide(div_a, div_b)
    /\ UNCHANGED <<div_a, div_b>>
    /\ UNCHANGED <<cvars, svars, tvars>>

MathNext == CallDivide

MathSpec == MathInit /\ [][MathNext]_vars

\* C33: divide(a, b) raises an invalid-argument error for every a when
\* b = 0, and for every b # 0 it returns, without error, the quotient a / b.
C33_DivideByZeroRaises ==
    div_result # NotCalled =>
       IF div_b = 0
       THEN div_result = InvalidArgument
       ELSE /\ div_result.kind = "value"
            /\ div_result.den > 0
            /\ div_result.num * div_b = div_a * div_result.den

\* divide(5, 0), as in test_divide, has raised
C33_Witness ==
    /\ div_a = 5 /\ div_b = 0
    /\ div_result = InvalidArgument

================================================================================
